---- MODULE Spec2Model ----
(***************************************************************************)
(* The IMAP STORE handler (onStore) of src/helpers/imap/on-subscribe.js:   *)
(* flag updates over a streamed selection of messages, the per-mailbox     *)
(* modseq counter, version-guarded writes and change entries, under         *)
(* interleaved invocations from several sessions; with it the SUBSCRIBE    *)
(* handler (onSubscribe) and the session check both start with              *)
(* (refreshSession).                                                        *)
(***************************************************************************)
EXTENDS Integers, Sequences, FiniteSets, TLC

(***************************************************************************)
(* Bounds of the model.                                                     *)
(***************************************************************************)
\* messages in the mailbox when sessions interleave
NumMessages == 2
\* messages in the mailbox when commands run one after another
NumMessagesSeq == 3
\* STORE commands the sessions issue in all
MaxCommands == 2
\* the mailbox's modifyIndex before the first command
InitModifyIndex == 2
\* flags new to the mailbox that one command supplies when its vocabulary
\* is nearly full
NumNewFlags == 6
\* the largest `retries` a RetryClient is constructed with
MaxRetriesOption == 4

(***************************************************************************)
(* Program constants.                                                       *)
(***************************************************************************)
MAX_BULK_WRITE_SIZE == 150
MAX_MAILBOX_FLAGS == 100
\* the retries of a RetryClient constructed without the option
DEFAULT_RETRIES == 3

\* `let newModseq;` is declared and never assigned: it is undefined whenever
\* `newModseq || (await getModseq(...))` is evaluated.
Undefined == "undefined"
newModseq == Undefined

\* null where a modseq is expected: `updatedMailbox && updatedMailbox.modifyIndex`
\* of a findOneAndUpdate that matched no mailbox
Null == -1

(***************************************************************************)
(* Flags: strings, stored with their case, compared through getFlag.       *)
(***************************************************************************)
\* f.trim().toLowerCase() over the flag strings of the model
getFlag(f) ==
  CASE f = "\\Seen" -> "\\seen"
    [] f = "\\SEEN" -> "\\seen"
    [] f = "\\Flagged" -> "\\flagged"
    [] f = "\\Deleted" -> "\\deleted"
    [] f = "\\Draft" -> "\\draft"
    [] f = "\\Answered" -> "\\answered"
    [] f = "Kw" -> "kw"
    [] f = " kw " -> "kw"
    [] OTHER -> f

\* imapTools.systemFlags
systemFlags == <<"\\answered", "\\flagged", "\\draft", "\\deleted", "\\seen">>

\* Array.prototype.includes: exact string equality
includes(arr, x) == \E i \in DOMAIN arr : arr[i] = x

\* new Set(arr.map((f) => getFlag(f)))
FlagSet(arr) == {getFlag(arr[i]) : i \in DOMAIN arr}

\* Array.prototype.map(getFlag)
MapGetFlag(arr) == [i \in DOMAIN arr |-> getFlag(arr[i])]

RECURSIVE FilterIn(_, _)
\* arr.filter((f) => S.has(getFlag(f)))
FilterIn(arr, S) ==
  IF arr = <<>> THEN <<>>
  ELSE (IF getFlag(Head(arr)) \in S THEN <<Head(arr)>> ELSE <<>>)
         \o FilterIn(Tail(arr), S)

RECURSIVE FilterNotIn(_, _)
\* arr.filter((f) => !S.has(getFlag(f)))
FilterNotIn(arr, S) ==
  IF arr = <<>> THEN <<>>
  ELSE (IF getFlag(Head(arr)) \notin S THEN <<Head(arr)>> ELSE <<>>)
         \o FilterNotIn(Tail(arr), S)

(***************************************************************************)
(* Update documents (flagsUpdate).  $set of the derived fields is a         *)
(* function from field names to values; assigning `flagsUpdate.$set = {..}` *)
(* replaces the whole object.                                               *)
(***************************************************************************)
EmptySet == [k \in {} |-> FALSE]

NoUpdate ==
  [op |-> "none", flags |-> <<>>, set |-> EmptySet, unsetSearchable |-> FALSE]

\* case 'set'
StoreSet(flags, value, specialUse) ==
  LET existingFlags == FlagSet(flags)
      updated == \/ Cardinality(existingFlags) # Len(value)
                 \/ \E i \in DOMAIN value : getFlag(value[i]) \notin existingFlags
      derived == ("unseen" :> ~includes(value, "\\Seen"))
                 @@ ("flagged" :> includes(value, "\\Flagged"))
                 @@ ("undeleted" :> ~includes(value, "\\Deleted"))
                 @@ ("draft" :> includes(value, "\\Draft"))
  IN [updated |-> updated,
      flags |-> value,
      flagsUpdate |->
        IF ~updated THEN NoUpdate
        ELSE IF includes(value, "\\Deleted")
          THEN [op |-> "$set", flags |-> value, set |-> derived,
                unsetSearchable |-> TRUE]
          ELSE [op |-> "$set", flags |-> value,
                set |-> derived @@ ("searchable" :> TRUE),
                unsetSearchable |-> FALSE]]

\* mutant: supplied flags are compared with the stored ones case-sensitively
StoreAdd_CaseSensitive(flags, value, specialUse) ==
  LET newFlags == SelectSeq(value, LAMBDA f : ~includes(flags, f))
  IN [updated |-> newFlags # <<>>,
      flags |-> flags \o newFlags,
      flagsUpdate |->
        IF newFlags = <<>> THEN NoUpdate
        ELSE [op |-> "$addToSet", flags |-> newFlags, set |-> EmptySet,
              unsetSearchable |-> includes(newFlags, "\\Deleted")]]

\* case 'add'
StoreAdd(flags, value, specialUse) ==
  LET existingFlags == FlagSet(flags)
      newFlags == FilterNotIn(value, existingFlags)
      updated == newFlags # <<>>
      s0 == EmptySet
      s1 == IF includes(newFlags, "\\Seen") THEN ("unseen" :> FALSE) ELSE s0
      s2 == IF includes(newFlags, "\\Flagged") THEN ("flagged" :> TRUE) ELSE s1
      s3 == IF includes(newFlags, "\\Deleted") THEN ("undeleted" :> FALSE) ELSE s2
      s4 == IF includes(newFlags, "\\Draft") THEN ("draft" :> TRUE) ELSE s3
  IN [updated |-> updated,
      flags |-> flags \o newFlags,
      flagsUpdate |->
        IF ~updated THEN NoUpdate
        ELSE [op |-> "$addToSet", flags |-> newFlags, set |-> s4,
              unsetSearchable |-> includes(newFlags, "\\Deleted")]]

\* mutant: stored flags are matched with the supplied ones case-sensitively
StoreRemove_CaseSensitive(flags, value, specialUse) ==
  LET oldFlags == SelectSeq(flags, LAMBDA f : includes(value, f))
  IN [updated |-> oldFlags # <<>>,
      flags |-> SelectSeq(flags, LAMBDA f : ~includes(value, f)),
      flagsUpdate |->
        IF oldFlags = <<>> THEN NoUpdate
        ELSE [op |-> "$pull", flags |-> oldFlags, set |-> EmptySet,
              unsetSearchable |-> FALSE]]

\* mutant: removing \Deleted makes the message searchable in every mailbox
StoreRemove_AlwaysSearchable(flags, value, specialUse) ==
  LET flagUpdates == FlagSet(value)
      oldFlags == FilterIn(flags, flagUpdates)
  IN [updated |-> oldFlags # <<>>,
      flags |-> FilterNotIn(flags, flagUpdates),
      flagsUpdate |->
        IF oldFlags = <<>> THEN NoUpdate
        ELSE [op |-> "$pull", flags |-> oldFlags,
              set |-> IF includes(oldFlags, "\\Deleted")
                        THEN ("undeleted" :> TRUE) @@ ("searchable" :> TRUE)
                        ELSE EmptySet,
              unsetSearchable |-> FALSE]]

\* case 'remove'
StoreRemove(flags, value, specialUse) ==
  LET flagUpdates == FlagSet(value)
      oldFlags == FilterIn(flags, flagUpdates)
      updated == oldFlags # <<>>
      s0 == EmptySet
      s1 == IF includes(oldFlags, "\\Seen") THEN ("unseen" :> TRUE) ELSE s0
      s2 == IF includes(oldFlags, "\\Flagged") THEN ("flagged" :> FALSE) ELSE s1
      s3 == IF includes(oldFlags, "\\Deleted")
              THEN IF specialUse \notin {"\\Junk", "\\Trash"}
                     THEN ("undeleted" :> TRUE) @@ ("searchable" :> TRUE)
                     ELSE ("undeleted" :> TRUE)
              ELSE s2
      s4 == IF includes(oldFlags, "\\Draft") THEN ("draft" :> FALSE) ELSE s3
  IN [updated |-> updated,
      flags |-> FilterNotIn(flags, flagUpdates),
      flagsUpdate |->
        IF ~updated THEN NoUpdate
        ELSE [op |-> "$pull", flags |-> oldFlags, set |-> s4,
              unsetSearchable |-> FALSE]]

\* switch (update.action): the new local flag list, `updated` and flagsUpdate
ComputeFlags(action, flags, value, specialUse) ==
  CASE action = "set" -> StoreSet(flags, value, specialUse)
    [] action = "add" -> StoreAdd(flags, value, specialUse)
    [] action = "remove" -> StoreRemove(flags, value, specialUse)

(***************************************************************************)
(* The store's update operators on a message document.                     *)
(***************************************************************************)
RECURSIVE AddToSet(_, _)
\* $addToSet with $each: append each element not yet in the array
AddToSet(arr, each) ==
  IF each = <<>> THEN arr
  ELSE AddToSet(IF includes(arr, Head(each)) THEN arr
                ELSE Append(arr, Head(each)), Tail(each))

RECURSIVE Pull(_, _)
\* $pull with $in: drop every element equal to one of the listed values
Pull(arr, in) ==
  IF arr = <<>> THEN <<>>
  ELSE (IF includes(in, Head(arr)) THEN <<>> ELSE <<Head(arr)>>)
         \o Pull(Tail(arr), in)

Field(doc, upd, k) == IF k \in DOMAIN upd.set THEN upd.set[k] ELSE doc[k]

\* mutant: the update leaves the stored modseq as it is
ApplyUpdate_KeepsModseq(doc, upd, modseq) ==
  [flags |-> CASE upd.op = "$set" -> upd.flags
               [] upd.op = "$addToSet" -> AddToSet(doc.flags, upd.flags)
               [] upd.op = "$pull" -> Pull(doc.flags, upd.flags)
               [] OTHER -> doc.flags,
   modseq |-> doc.modseq,
   unseen |-> Field(doc, upd, "unseen"),
   flagged |-> Field(doc, upd, "flagged"),
   undeleted |-> Field(doc, upd, "undeleted"),
   draft |-> Field(doc, upd, "draft"),
   searchable |-> IF upd.unsetSearchable THEN FALSE
                  ELSE Field(doc, upd, "searchable")]

\* one updateOne of the bulk write applied to the stored document
ApplyUpdate(doc, upd, modseq) ==
  [flags |-> CASE upd.op = "$set" -> upd.flags
               [] upd.op = "$addToSet" -> AddToSet(doc.flags, upd.flags)
               [] upd.op = "$pull" -> Pull(doc.flags, upd.flags)
               [] OTHER -> doc.flags,
   modseq |-> modseq,
   unseen |-> Field(doc, upd, "unseen"),
   flagged |-> Field(doc, upd, "flagged"),
   undeleted |-> Field(doc, upd, "undeleted"),
   draft |-> Field(doc, upd, "draft"),
   searchable |-> IF upd.unsetSearchable THEN FALSE
                  ELSE Field(doc, upd, "searchable")]

\* mutant: the write is not guarded by the stored modseq
FilterMatches_NoGuard(doc, modseq) == TRUE

\* mutant: the guard is { modseq: { $ne: modseq } }
FilterMatches_NotEqual(doc, modseq) == doc.modseq # modseq

\* the updateOne filter: { uid, modseq: { $lt: modseq } }; no document
\* compares as less than null
FilterMatches(doc, modseq) == modseq # Null /\ doc.modseq < modseq

(***************************************************************************)
(* State.                                                                   *)
(***************************************************************************)
VARIABLES
  modifyIndex,    \* Mailboxes: the mailbox's modifyIndex
  mailboxFlags,   \* Mailboxes: the mailbox's flags (known-flag vocabulary)
  specialUse,     \* Mailboxes: the mailbox's specialUse
  messages,       \* Messages of the mailbox: uid -> stored document
  session,        \* per session: the locals of its onStore invocation
  selected,       \* per session: session.selected (uidList, condstoreEnabled)
  subscribed,     \* Mailboxes: the mailbox's subscribed
  foreign,        \* Mailboxes, Messages: a mailbox of another alias
  journal,        \* change entries handed to notifier.addEntries
  closeTimeout,   \* server._closeTimeout is set (shutdown in progress)
  socketOpen,     \* per session: the socket is open and not destroyed
  domainValid,    \* the domain record passes validateDomain
  aliasValid,     \* the alias record passes validateAlias
  notifierUp,     \* notifier.addEntries and notifier.fire succeed
  directory,      \* the TXT records of the domains and the alias's tokens
  login,          \* per session: its last onAuth call and session.user
  mailboxExists,  \* Mailboxes holds the document of the selected mailbox
  storeUp,        \* the store answers; when not, its operations throw
  request,        \* a RetryClient and the request it was given
  scenario        \* which commands the sessions issue, and whether they interleave

storeVars == <<modifyIndex, mailboxFlags, specialUse, messages, subscribed,
               foreign>>
envVars == <<closeTimeout, socketOpen, domainValid, aliasValid, notifierUp,
             directory, login, mailboxExists, storeUp, request, scenario>>
vars == <<modifyIndex, mailboxFlags, specialUse, messages, subscribed, foreign,
          session, selected, journal, closeTimeout, socketOpen, domainValid,
          aliasValid, notifierUp, directory, login, mailboxExists, storeUp,
          request, scenario>>

\* the two sessions that have the mailbox selected
Sessions == {1, 2}

SeqToSet(arr) == {arr[i] : i \in DOMAIN arr}

\* the ascending list of the uids of a set (session.selected.uidList,
\* update.messages)
Ascending(S) ==
  [i \in 1..Cardinality(S) |->
     CHOOSE x \in S : Cardinality({y \in S : y < x}) = i - 1]

\* a stored message whose derived fields mirror its flags
NewMessage(flags, modseq, use) ==
  [flags |-> flags,
   modseq |-> modseq,
   unseen |-> "\\seen" \notin FlagSet(flags),
   flagged |-> "\\flagged" \in FlagSet(flags),
   undeleted |-> "\\deleted" \notin FlagSet(flags),
   draft |-> "\\draft" \in FlagSet(flags),
   searchable |-> /\ "\\deleted" \notin FlagSet(flags)
                  /\ use \notin {"\\Junk", "\\Trash"}]

\* the locals of onStore before a command
IdleSession ==
  [pc |-> "idle",
   commands |-> 0,
   command |-> "",
   mailboxId |-> "",
   update |-> [action |-> "set", value |-> <<>>, messages |-> <<>>,
               hasUnchangedSince |-> FALSE, unchangedSince |-> 0,
               silent |-> FALSE, isUid |-> FALSE],
   mailbox |-> [id |-> "", flags |-> <<>>, specialUse |-> ""],
   queryAll |-> FALSE,
   lastUid |-> 0,
   message |-> [uid |-> 0, flags |-> <<>>, flagsUpdate |-> NoUpdate],
   modified |-> <<>>,
   entries |-> <<>>,
   bulkWrite |-> <<>>,
   pending |-> {},
   responses |-> <<>>,
   result |-> [kind |-> "none", modified |-> <<>>],
   callbacks |-> 0,
   err |-> "",
   thrownAt |-> "",
   cursor |-> "none",
   \* history of the invocation
   before |-> <<>>,
   streamed |-> <<>>,
   getModseqCalls |-> 0,
   written |-> {}]

(***************************************************************************)
(* refreshSession(session, command)                                         *)
(***************************************************************************)
IMAP_COMMANDS ==
  {"APPEND", "COPY", "CREATE", "DELETE", "EXPUNGE", "FETCH", "GETQUOTAROOT",
   "GETQUOTA", "LIST", "LSUB", "MOVE", "OPEN", "RENAME", "SEARCH", "STATUS",
   "STORE", "SUBSCRIBE", "UNSUBSCRIBE"}

\* validateDomain(domain, ...) on the domain record fetched by this call: the
\* error it throws, if any
validateDomain == IF domainValid THEN "ok" ELSE "DomainError"

\* validateAlias(alias, ...) on the alias record fetched by this call: the
\* error it throws, if any
validateAlias == IF aliasValid THEN "ok" ELSE "AliasError"

\* mutant: the socket is checked before the shutdown
refreshSession_SocketFirst(s, command) ==
  IF command \notin IMAP_COMMANDS THEN "InvalidCommand"
  ELSE IF ~socketOpen[s] THEN "SocketError"
  ELSE IF closeTimeout THEN "ServerShutdownError"
  ELSE IF validateDomain # "ok" THEN validateDomain
  ELSE IF validateAlias # "ok" THEN validateAlias
  ELSE "ok"

\* mutant: the state of the socket is not checked
refreshSession_NoSocketCheck(s, command) ==
  IF command \notin IMAP_COMMANDS THEN "InvalidCommand"
  ELSE IF closeTimeout THEN "ServerShutdownError"
  ELSE IF validateDomain # "ok" THEN validateDomain
  ELSE IF validateAlias # "ok" THEN validateAlias
  ELSE "ok"

\* mutant: the domain and alias the session was authenticated with are
\* trusted, no record is fetched and validated
refreshSession_TrustsSession(s, command) ==
  IF command \notin IMAP_COMMANDS THEN "InvalidCommand"
  ELSE IF closeTimeout THEN "ServerShutdownError"
  ELSE IF ~socketOpen[s] THEN "SocketError"
  ELSE "ok"

\* the error refreshSession throws, or "ok" (sessions are authenticated:
\* session.user.domain_id and session.user.alias_id are set)
refreshSession(s, command) ==
  IF command \notin IMAP_COMMANDS THEN "InvalidCommand"
  ELSE IF closeTimeout THEN "ServerShutdownError"
  ELSE IF ~socketOpen[s] THEN "SocketError"
  ELSE IF validateDomain # "ok" THEN validateDomain
  ELSE IF validateAlias # "ok" THEN validateAlias
  ELSE "ok"

\* refreshSession as the commands await it: past the checks of the server
\* and the socket it fetches the domain and the alias, which throws when the
\* store does not answer
Refreshed(s, command) ==
  IF storeUp \/ refreshSession(s, command) \in
                  {"InvalidCommand", "ServerShutdownError", "SocketError"}
    THEN refreshSession(s, command)
    ELSE "StorageError"

(***************************************************************************)
(* onStore(mailboxId, update, session, fn)                                  *)
(***************************************************************************)
\* the alias of the sessions (session.user.alias_id, the alias that
\* refreshSession returns)
SessionAlias == "alias"

\* the identity of the mailbox the sessions have selected and of the mailbox
\* of another alias: _id, alias, path
OwnMailbox == [id |-> "mailbox", alias |-> SessionAlias, path |-> "INBOX"]
ForeignMailbox == [id |-> "foreign", alias |-> "other", path |-> "INBOX"]

\* the documents of Mailboxes
MailboxDocs ==
  IF mailboxExists THEN {OwnMailbox, ForeignMailbox} ELSE {ForeignMailbox}

\* a filter { _id: id, alias: alias } matches the mailbox document
MailboxMatches(doc, id, alias) ==
  doc \in MailboxDocs /\ doc.id = id /\ doc.alias = alias

\* mutant: the mailbox is looked up by its id alone
MailboxFound_AnyAlias(mailboxId) ==
  mailboxId \in {doc.id : doc \in MailboxDocs}

\* Mailboxes.findOne({ _id: mailboxId, alias: alias._id }) finds a document
MailboxFound(mailboxId) ==
  \E doc \in MailboxDocs : MailboxMatches(doc, mailboxId, SessionAlias)

\* the document found: its _id, flags and specialUse
FindMailbox(mailboxId) ==
  IF mailboxId = ForeignMailbox.id
    THEN [id |-> mailboxId, flags |-> foreign.flags,
          specialUse |-> foreign.specialUse]
    ELSE [id |-> mailboxId, flags |-> mailboxFlags, specialUse |-> specialUse]

\* refreshSession, the mailbox lookup and the cursor's query
onStoreBegin(s, mailboxId, upd) ==
  /\ session[s].pc \in {"idle", "done"}
  /\ LET base == [IdleSession EXCEPT !.commands = session[s].commands + 1,
                                     !.command = "STORE",
                                     !.mailboxId = mailboxId]
         refreshed == Refreshed(s, "STORE")
     IN session' = [session EXCEPT ![s] =
          IF refreshed # "ok"
            THEN [base EXCEPT !.pc = "done",
                              !.callbacks = @ + 1,
                              !.result = [kind |-> refreshed, modified |-> <<>>]]
          ELSE IF ~MailboxFound(mailboxId)
            THEN [base EXCEPT !.pc = "done",
                              !.callbacks = @ + 1,
                              !.result = [kind |-> "NONEXISTENT",
                                          modified |-> <<>>]]
          ELSE [base EXCEPT
                  !.pc = "stream",
                  !.update = upd,
                  !.mailbox = FindMailbox(mailboxId),
                  !.queryAll = (Len(upd.messages) = Len(selected[s].uidList)),
                  !.cursor = "open",
                  !.before = messages]]
  /\ UNCHANGED <<storeVars, selected, journal, envVars>>

\* update.unchangedSince && message.modseq > update.unchangedSince
Conflicts(upd, doc) ==
  /\ upd.hasUnchangedSince
  /\ upd.unchangedSince # 0
  /\ doc.modseq > upd.unchangedSince

\* mutant: the cursor yields nothing more once the server shuts down or the
\* session's socket is closed
CursorRest_UntilClosed(s) ==
  {u \in DOMAIN messages :
     /\ ~closeTimeout
     /\ socketOpen[s]
     /\ session[s].mailbox.id = OwnMailbox.id
     /\ OwnMailbox.alias = SessionAlias
     /\ u > session[s].lastUid
     /\ \/ session[s].queryAll
        \/ u \in SeqToSet(session[s].update.messages)}

\* the uids the cursor has still to yield: Messages.find(query).sort({uid: 1})
\* with query.mailbox the mailbox found and query.alias the session's alias
\* (`messages` are the Messages of OwnMailbox)
CursorRest(s) ==
  {u \in DOMAIN messages :
     /\ session[s].mailbox.id = OwnMailbox.id
     /\ OwnMailbox.alias = SessionAlias
     /\ u > session[s].lastUid
     /\ \/ session[s].queryAll
        \/ u \in SeqToSet(session[s].update.messages)}

\* mutant: a wildcard selection does not consult the session's uidList
Skipped_Never(s, uid) == FALSE

\* `queryAll && ... && !session.selected.uidList.includes(message.uid)`
Skipped(s, uid) ==
  session[s].queryAll /\ uid \notin SeqToSet(selected[s].uidList)

\* mutant: no `if (!updated) continue`
Outcome_NoEarlyContinue(s, uid, doc) ==
  IF Skipped(s, uid) THEN "skipped"
  ELSE IF Conflicts(session[s].update, doc) THEN "conflict"
  ELSE "updated"

\* what the loop body does with a fetched message up to `if (!updated) continue`
Outcome(s, uid, doc) ==
  IF Skipped(s, uid) THEN "skipped"
  ELSE IF Conflicts(session[s].update, doc) THEN "conflict"
  ELSE IF ~ComputeFlags(session[s].update.action, doc.flags,
                        session[s].update.value,
                        session[s].mailbox.specialUse).updated THEN "noop"
  ELSE "updated"

\* update mailbox flags: the flags of update.value to register
NewMailboxFlags(mailbox, value) ==
  LET known == MapGetFlag(systemFlags \o mailbox.flags)
      F[i \in 0..Len(value)] ==
        IF i = 0 THEN <<>>
        ELSE IF Len(known) + Len(F[i - 1]) >= MAX_MAILBOX_FLAGS THEN F[i - 1]
        ELSE IF ~includes(known, getFlag(value[i]))
          THEN Append(F[i - 1], value[i])
        ELSE F[i - 1]
  IN F[Len(value)]

\* the end of onStore: the mailbox's flag vocabulary, then fn(null, true, modified)
Finished(s, sess) ==
  [sess EXCEPT !.pc = "done",
               !.callbacks = @ + 1,
               !.result = [kind |-> "ok", modified |-> sess.modified]]

\* Mailboxes.updateOne({ _id: mailbox._id, alias: alias._id }, $addToSet)
\* on the flags of a mailbox document
VocabularyAfter(s, doc, flags) ==
  IF /\ session[s].update.action # "remove"
     /\ MailboxMatches(doc, session[s].mailbox.id, SessionAlias)
    THEN AddToSet(flags,
                  NewMailboxFlags(session[s].mailbox, session[s].update.value))
    ELSE flags

\* the loop is left, at the end of the stream or through `catch (_err)`:
\* cursor.close(), then the last bulkWrite if writes are staged, else the
\* notifier if entries are staged, else the mailbox's flags
AfterLoop(sess) ==
  [sess EXCEPT
     !.cursor = "closed",
     !.pc = IF sess.bulkWrite # <<>> THEN "flush"
            ELSE IF sess.entries # <<>> THEN "notify"
            ELSE "finish",
     !.pending = DOMAIN sess.bulkWrite]

\* mutant: the outer catch logs the error and calls nothing
Thrown_NoCallback(sess, at) ==
  [sess EXCEPT !.pc = "done",
               !.pending = {},
               !.thrownAt = at]

\* the outer catch: fn(refineAndLogError(err, session, true)); at: the
\* statement that threw
Thrown(sess, at) ==
  [sess EXCEPT !.pc = "done",
               !.pending = {},
               !.thrownAt = at,
               !.callbacks = @ + 1,
               !.result = [kind |-> "StorageError", modified |-> <<>>]]

\* `catch (_err) { err = _err; }` around the loop
Caught(sess, e) == AfterLoop([sess EXCEPT !.err = e])

\* one iteration of `for await (const message of cursor)`, or the end of the
\* stream (cursor.close); the cursor throws when the store does not answer
onStoreFetch(s) ==
  /\ session[s].pc = "stream"
  /\ IF ~storeUp
       THEN session' = [session EXCEPT ![s] =
                          Caught(session[s], "StorageError")]
       ELSE IF CursorRest(s) = {}
       THEN session' = [session EXCEPT ![s] = AfterLoop(session[s])]
       ELSE LET uid == CHOOSE u \in CursorRest(s) :
                         \A v \in CursorRest(s) : u <= v
                doc == messages[uid]
                out == Outcome(s, uid, doc)
                c == ComputeFlags(session[s].update.action, doc.flags,
                                  session[s].update.value,
                                  session[s].mailbox.specialUse)
                seen == [session[s] EXCEPT
                           !.lastUid = uid,
                           !.streamed = Append(@, [uid |-> uid,
                                                   flags |-> doc.flags,
                                                   modseq |-> doc.modseq])]
            IN session' = [session EXCEPT ![s] =
                 CASE out = "skipped" -> seen
                   [] out = "conflict" ->
                        [seen EXCEPT !.modified = Append(@, uid)]
                   [] out = "noop" -> seen
                   [] out = "updated" ->
                        [seen EXCEPT !.pc = "modseq",
                                     !.message = [uid |-> uid,
                                                  flags |-> c.flags,
                                                  flagsUpdate |-> c.flagsUpdate]]]
  /\ UNCHANGED <<storeVars, selected, journal, envVars>>

\* the mailbox document that getModseq's filter { _id: mailbox._id, alias }
\* matches is in Mailboxes: the invocation found it there, under the
\* session's alias
getModseqFinds == mailboxExists

\* mutant: returnDocument 'before': the counter as it was is returned
getModseq_ReturnsBefore ==
  [modifyIndex |-> modifyIndex + 1, returns |-> modifyIndex]

\* mutant: the incremented counter is returned and never persisted
getModseq_NotPersisted ==
  [modifyIndex |-> modifyIndex, returns |-> modifyIndex + 1]

\* getModseq(mailbox, alias): findOneAndUpdate with $inc modifyIndex by 1 and
\* returnDocument 'after': the counter the store then holds, and the value
\* returned (updatedMailbox.modifyIndex)
getModseq ==
  IF getModseqFinds
    THEN [modifyIndex |-> modifyIndex + 1, returns |-> modifyIndex + 1]
    ELSE [modifyIndex |-> modifyIndex, returns |-> Null]

\* mutant: a silent update is never answered
Responds_NeverWhenSilent(upd, condstoreEnabled) == ~upd.silent

\* `if (!update.silent || condstoreEnabled)`: the response is written
Responds(upd, condstoreEnabled) == ~upd.silent \/ condstoreEnabled

\* `newModseq || (await getModseq(mailbox, alias))`, the response, the staged
\* write and the change entry
onStoreModseq(s) ==
  /\ session[s].pc = "modseq"
  /\ LET sess == session[s]
         upd == sess.update
         callsGetModseq == newModseq = Undefined
         modseq == IF callsGetModseq THEN getModseq.returns ELSE newModseq
         condstoreEnabled == selected[s].condstoreEnabled
         response == [id |-> sess.message.uid,
                      uid |-> upd.isUid,
                      flags |-> sess.message.flags,
                      withModseq |-> condstoreEnabled,
                      modseq |-> modseq]
         write == [uid |-> sess.message.uid,
                   modseq |-> modseq,
                   update |-> sess.message.flagsUpdate]
         entry == [command |-> "FETCH",
                   uid |-> sess.message.uid,
                   modseq |-> modseq,
                   unseen |-> includes(upd.value, "\\Seen")]
         bulk == Append(sess.bulkWrite, write)
         matches(doc) == callsGetModseq
                           /\ MailboxMatches(doc, sess.mailbox.id, SessionAlias)
     IN IF callsGetModseq /\ ~storeUp
          THEN /\ session' = [session EXCEPT ![s] =
                                Caught(sess, "StorageError")]
               /\ UNCHANGED <<modifyIndex, foreign>>
          ELSE
        /\ modifyIndex' = IF matches(OwnMailbox) THEN getModseq.modifyIndex
                          ELSE modifyIndex
        /\ foreign' = IF matches(ForeignMailbox)
                        THEN [foreign EXCEPT !.modifyIndex = @ + 1]
                        ELSE foreign
        /\ session' = [session EXCEPT ![s] =
             [sess EXCEPT
                !.getModseqCalls = IF callsGetModseq THEN @ + 1 ELSE @,
                !.responses = IF Responds(upd, condstoreEnabled)
                                THEN Append(@, response) ELSE @,
                !.bulkWrite = bulk,
                !.entries = Append(@, entry),
                !.pc = IF Len(bulk) >= MAX_BULK_WRITE_SIZE
                         THEN "bulk" ELSE "stream",
                !.pending = IF Len(bulk) >= MAX_BULK_WRITE_SIZE
                              THEN DOMAIN bulk ELSE {}]]
  /\ UNCHANGED <<mailboxFlags, specialUse, messages, subscribed, selected,
                 journal, envVars>>

\* the writes of the batch the store can apply next: any of them, the batch
\* being unordered; where commands run one after another on a mailbox of more
\* than a batch of messages, in the order of the list, the writes of a batch
\* being to different messages
Submittable(s) ==
  IF scenario = "batch" /\ session[s].pending # {}
    THEN {CHOOSE i \in session[s].pending :
            \A j \in session[s].pending : i <= j}
    ELSE session[s].pending

\* Messages.bulkWrite throws, with the writes of the batch it has not yet
\* applied: in the loop the batch is emptied and the error caught, after the
\* loop the error goes to the outer catch
onStoreWriteFails(s) ==
  /\ session[s].pc \in {"bulk", "flush"}
  /\ ~storeUp
  /\ session' = [session EXCEPT ![s] =
       IF session[s].pc = "bulk"
         THEN Caught([session[s] EXCEPT !.bulkWrite = <<>>], "StorageError")
         ELSE Thrown(session[s], "bulkWrite")]
  /\ UNCHANGED <<storeVars, selected, journal, envVars>>

\* mutant: no `bulkWrite = []` after the bulkWrite in the loop
AfterBatch_KeepsWrites(sess) ==
  [sess EXCEPT !.pc = IF sess.entries # <<>> THEN "notify-bulk" ELSE "stream"]

\* the bulkWrite in the loop has returned: `bulkWrite = []`, then the
\* notifier if entries are staged, else the next message
AfterBatch(sess) ==
  [sess EXCEPT !.bulkWrite = <<>>,
               !.pc = IF sess.entries # <<>> THEN "notify-bulk" ELSE "stream"]

\* Messages.bulkWrite(bulkWrite, { ordered: false }): one updateOne of the
\* batch; the batch of a full bulkWrite is emptied, the last batch is not
onStoreWrite(s) ==
  /\ session[s].pc \in {"bulk", "flush"}
  /\ storeUp
  /\ \E i \in Submittable(s) :
       LET sess == session[s]
           w == sess.bulkWrite[i]
           hit == w.uid \in DOMAIN messages
                    /\ FilterMatches(messages[w.uid], w.modseq)
           rest == sess.pending \ {i}
           logged == [sess EXCEPT
                        !.pending = rest,
                        !.written = @ \cup {[uid |-> w.uid,
                                             modseq |-> w.modseq,
                                             applied |-> hit]}]
       IN /\ messages' = IF hit
                           THEN [messages EXCEPT ![w.uid] =
                                   ApplyUpdate(@, w.update, w.modseq)]
                           ELSE messages
          /\ session' = [session EXCEPT ![s] =
               IF rest # {} THEN logged
               ELSE IF sess.pc = "bulk" THEN AfterBatch(logged)
               ELSE [logged EXCEPT
                       !.pc = IF sess.entries # <<>> THEN "notify"
                              ELSE "finish"]]
  /\ UNCHANGED <<modifyIndex, mailboxFlags, specialUse, subscribed, foreign,
                 selected, journal, envVars>>

\* mutant: an error of the notifier is thrown on
AfterNotifier_Propagates(sess, delivered) ==
  IF ~delivered
    THEN [sess EXCEPT !.pc = "done",
                      !.result = [kind |-> "NotifierError", modified |-> <<>>]]
  ELSE IF sess.pc = "notify-bulk"
    THEN [sess EXCEPT !.pc = "stream", !.entries = <<>>]
  ELSE [sess EXCEPT !.pc = "finish"]

\* the locals after `try { await notifier.addEntries(...); notifier.fire(...) }
\* catch (err) { logger.fatal(...) }`: in the loop the entries are emptied
\* once delivered; an error is logged and nothing else
AfterNotifier(sess, delivered) ==
  IF sess.pc = "notify-bulk"
    THEN [sess EXCEPT !.pc = "stream",
                      !.entries = IF delivered THEN <<>> ELSE @]
    ELSE [sess EXCEPT !.pc = "finish"]

\* the staged entries go to the notifier, which takes them or throws
onStoreNotify(s) ==
  /\ session[s].pc \in {"notify-bulk", "notify"}
  /\ journal' = IF notifierUp THEN journal \cup SeqToSet(session[s].entries)
                ELSE journal
  /\ session' = [session EXCEPT ![s] = AfterNotifier(session[s], notifierUp)]
  /\ UNCHANGED <<storeVars, selected, envVars>>

\* mutant: no `if (err) throw err`
Completion_SwallowsError(s, sess) == Finished(s, sess)

\* `if (err) throw err;` and `fn(null, true, modified)`
Completion(s, sess) ==
  IF sess.err # "" THEN Thrown(sess, "err") ELSE Finished(s, sess)

\* the command has flags to register: Mailboxes.updateOne is called
RegistersFlags(s) ==
  /\ session[s].update.action # "remove"
  /\ NewMailboxFlags(session[s].mailbox, session[s].update.value) # <<>>

\* `update mailbox flags`, which throws when there are flags to register and
\* the store does not answer, then the captured error or fn(null, true,
\* modified)
onStoreFinish(s) ==
  /\ session[s].pc = "finish"
  /\ IF RegistersFlags(s) /\ ~storeUp
       THEN /\ session' = [session EXCEPT ![s] =
                               Thrown(session[s], "updateOne")]
            /\ UNCHANGED <<mailboxFlags, foreign>>
       ELSE /\ mailboxFlags' = VocabularyAfter(s, OwnMailbox, mailboxFlags)
            /\ foreign' = [foreign EXCEPT
                             !.flags = VocabularyAfter(s, ForeignMailbox, @)]
            /\ session' = [session EXCEPT ![s] = Completion(s, session[s])]
  /\ UNCHANGED <<modifyIndex, specialUse, messages, subscribed, selected,
                 journal, envVars>>

(***************************************************************************)
(* onSubscribe(path, session, fn)                                           *)
(***************************************************************************)
\* mutant: the filter holds the path alone
SubscribeMatches_AnyAlias(doc, path, alias) ==
  doc \in MailboxDocs /\ doc.path = path

\* a filter { path, alias: alias._id } matches the mailbox document
SubscribeMatches(doc, path, alias) ==
  doc \in MailboxDocs /\ doc.path = path /\ doc.alias = alias

\* refreshSession, then findOneAndUpdate with $set subscribed
onSubscribe(s, path) ==
  /\ session[s].pc \in {"idle", "done"}
  /\ LET base == [IdleSession EXCEPT !.commands = session[s].commands + 1,
                                     !.command = "SUBSCRIBE",
                                     !.mailboxId = path,
                                     !.callbacks = 1,
                                     !.pc = "done"]
         refreshed == Refreshed(s, "SUBSCRIBE")
         matches(doc) == refreshed = "ok"
                           /\ SubscribeMatches(doc, path, SessionAlias)
     IN /\ subscribed' = IF matches(OwnMailbox) THEN TRUE ELSE subscribed
        /\ foreign' = IF matches(ForeignMailbox)
                        THEN [foreign EXCEPT !.subscribed = TRUE]
                        ELSE foreign
        /\ session' = [session EXCEPT ![s] =
             [base EXCEPT !.result =
                [kind |-> IF refreshed # "ok" THEN refreshed
                          ELSE IF matches(OwnMailbox) \/ matches(ForeignMailbox)
                            THEN "ok"
                          ELSE "NONEXISTENT",
                 modified |-> <<>>]]]
  /\ UNCHANGED <<modifyIndex, mailboxFlags, specialUse, messages, selected,
                 journal, envVars>>

(***************************************************************************)
(* onAuth(auth, session, fn)                                                *)
(***************************************************************************)
\* a TXT record that starts with config.paidPrefix, and one that does not
Paid(value) == [paid |-> TRUE, value |-> value]
OtherTxt == [paid |-> FALSE, value |-> "v=spf1 -all"]

\* Domains: a domain on a paid plan and a domain on the free plan
Domains ==
  {[name |-> "example.com", verification_record |-> "v1",
    plan |-> "enhanced_protection"],
   [name |-> "free.example", verification_record |-> "v2", plan |-> "free"]}

\* Aliases: every domain has the alias "alias"
Aliases == {[name |-> "alias", domain |-> d.name] : d \in Domains}

\* session.user as onAuth's response sets it
User(alias, domain) ==
  [username |-> <<alias.name, domain.name>>,
   alias_name |-> alias.name,
   domain_name |-> domain.name]

\* what auth.username can be: the alias's address, the same with spaces and
\* capitals, an address no alias has, the alias of the free domain, the
\* alias's address without its top-level domain, a bare name, the empty string
Usernames ==
  {"alias@example.com", " Alias@Example.COM ", "beep@example.com",
   "alias@free.example", "alias@example", "alias", ""}

\* typeof auth.username === 'string', isSANB, isEmail(auth.username.trim())
\* and none of the documentation's placeholders
ValidUsername(username) ==
  username \in {"alias@example.com", " Alias@Example.COM ", "beep@example.com",
                "alias@free.example"}

\* auth.username.trim().toLowerCase().split('@'), the domain through
\* punycode.toUnicode
SplitUsername(username) ==
  CASE username \in {"alias@example.com", " Alias@Example.COM "} ->
         [name |-> "alias", domainName |-> "example.com"]
    [] username = "beep@example.com" ->
         [name |-> "beep", domainName |-> "example.com"]
    [] username = "alias@free.example" ->
         [name |-> "alias", domainName |-> "free.example"]

\* what auth.password can be: a generated token, the same with spaces around
\* it, another string, the documentation's placeholder, the empty string
Passwords == {"token1", " token1 ", "wrong", "my_password", ""}

\* typeof auth.password === 'string', isSANB, at most 128 characters and none
\* of the documentation's placeholders
ValidPassword(password) == password \notin {"", "my_password"}

\* auth.password.trim()
Trim(password) == IF password = " token1 " THEN "token1" ELSE password

\* Aliases.isValidPassword(alias.tokens, password): the password is one of
\* the alias's generated tokens
isValidPassword(tokens, password) == password \in tokens

\* the records of resolveTxt that start with config.paidPrefix, without it
Verifications(records) ==
  LET paid == SelectSeq(records, LAMBDA r : r.paid)
  IN [i \in DOMAIN paid |-> paid[i].value]

\* mutant: the plan is not part of the filter
FindDomain_AnyPlan(domainName, verification) ==
  {d \in Domains : /\ d.name = domainName
                   /\ d.verification_record = verification}

\* Domains.findOne({ name, verification_record, plan: { $ne: 'free' } })
FindDomain(domainName, verification) ==
  {d \in Domains : /\ d.name = domainName
                   /\ d.verification_record = verification
                   /\ d.plan # "free"}

\* Aliases.findOne({ name, domain: domain._id })
FindAlias(name, domain) ==
  {a \in Aliases : a.name = name /\ a.domain = domain.name}

\* the error onAuth throws, or "ok"; limited: the rate limiter has no
\* attempt left for the client's address and the client is not a host of
\* the service
onAuthResult(s, username, password, limited) ==
  IF closeTimeout THEN "ServerShutdownError"
  ELSE IF ~socketOpen[s] THEN "SocketError"
  ELSE IF ~ValidUsername(username) THEN "InvalidUsername"
  ELSE IF ~ValidPassword(password) THEN "InvalidPassword"
  ELSE
    LET name == SplitUsername(username).name
        domainName == SplitUsername(username).domainName
        verifications == Verifications(directory.txt[domainName])
    IN IF Len(verifications) = 0 THEN "MissingVerification"
       ELSE IF Len(verifications) > 1 THEN "ManyVerifications"
       ELSE IF FindDomain(domainName, verifications[1]) = {}
         THEN "DomainError"
       ELSE IF validateDomain # "ok" THEN validateDomain
       ELSE
         LET domain == CHOOSE d \in FindDomain(domainName, verifications[1]) :
                         TRUE
         IN IF FindAlias(name, domain) = {} THEN "AliasError"
            ELSE IF validateAlias # "ok" THEN validateAlias
            ELSE IF directory.tokens = {} THEN "NoPassword"
            ELSE IF limited THEN "RateLimited"
            ELSE IF ~isValidPassword(directory.tokens, Trim(password))
              THEN "InvalidPassword"
            ELSE "ok"

\* the user of onAuth's response; the alias has its required mailboxes, so
\* that none is created
onAuthUser(username) ==
  LET name == SplitUsername(username).name
      domainName == SplitUsername(username).domainName
      found == FindDomain(domainName,
                          Verifications(directory.txt[domainName])[1])
      domain == CHOOSE d \in found : TRUE
      alias == CHOOSE a \in FindAlias(name, domain) : TRUE
  IN User(alias, domain)

\* session.user is not set
NoUser == [username |-> <<>>, alias_name |-> "", domain_name |-> ""]

\* a session that has not authenticated, and the sessions of the STORE and
\* SUBSCRIBE commands
Unauthenticated ==
  [attempts |-> 0, username |-> "", password |-> "", result |-> "none",
   user |-> NoUser]
Authenticated ==
  [attempts |-> 1, username |-> "alias@example.com", password |-> "token1",
   result |-> "ok",
   user |-> [username |-> <<"alias", "example.com">>, alias_name |-> "alias",
             domain_name |-> "example.com"]]

\* onAuth: fn(null, { user }) sets session.user, fn(err) does not
onAuth(s, username, password, limited) ==
  /\ login[s].user = NoUser
  /\ LET result == onAuthResult(s, username, password, limited)
     IN login' = [login EXCEPT ![s] =
          [attempts |-> login[s].attempts + 1,
           username |-> username,
           password |-> password,
           result |-> result,
           user |-> IF result = "ok" THEN onAuthUser(username)
                    ELSE login[s].user]]
  /\ UNCHANGED <<storeVars, session, selected, journal, closeTimeout,
                 socketOpen, domainValid, aliasValid, notifierUp, directory,
                 mailboxExists, storeUp, request, scenario>>

\* the TXT records the paid domain can publish: none, its verification
\* record alone or beside another record, twice, beside the verification
\* record of the other domain, and that of the other domain alone
TxtRecords ==
  {<<>>, <<Paid("v1")>>, <<OtherTxt, Paid("v1")>>, <<Paid("v1"), Paid("v1")>>,
   <<Paid("v1"), Paid("v2")>>, <<Paid("v2")>>}

\* the directory of the STORE and SUBSCRIBE commands
InitDirectory ==
  [txt |-> [d \in {"example.com", "free.example"} |->
              IF d = "example.com" THEN <<Paid("v1")>> ELSE <<Paid("v2")>>],
   tokens |-> {"token1"}]

(***************************************************************************)
(* RetryClient: an undici client whose request is tried again after a      *)
(* retryable error.                                                         *)
(***************************************************************************)
\* the constructor's options: retries absent, or a number
NoOpts == [hasRetries |-> FALSE, retries |-> 0]
Options ==
  {NoOpts} \cup {[hasRetries |-> TRUE, retries |-> n] : n \in 0..MaxRetriesOption}

\* typeof opts?.retries === 'number' ? opts.retries : 3
RetriesOf(opts) == IF opts.hasRetries THEN opts.retries ELSE DEFAULT_RETRIES

\* the default calculateDelay: Math.round(1000 * 2 ** count)
calculateDelay(count) == 1000 * 2^count

\* what one call of the underlying request (this._request, with throwOnError)
\* does: it returns a response with a status below 400, or it throws, on a
\* status from 400 on or without a response (status 0: timeout, socket
\* error); retryable is what isRetryableError says of the error
Outcomes ==
  {[kind |-> "response", status |-> 200, retryable |-> FALSE]}
  \cup {[kind |-> "response", status |-> st, retryable |-> r] :
          st \in {204, 302}, r \in BOOLEAN}
  \cup {[kind |-> "throw", status |-> st, retryable |-> r] :
          st \in {0, 500}, r \in BOOLEAN}

\* isRetryableError(err)
isRetryableError(err) == err.retryable

\* the attempt ends in the catch: the underlying request threw, or
\* `if (response.statusCode !== 200)` threw a ResponseStatusCodeError
Failed(outcome) == outcome.kind = "throw" \/ outcome.status # 200

\* mutant: one attempt more
GivesUp_OneMore(count, retries, err) ==
  count > retries \/ ~isRetryableError(err)

\* `if (count >= retries || !isRetryableError(err)) throw err`
GivesUp(count, retries, err) ==
  count >= retries \/ ~isRetryableError(err)

NoError == [attempt |-> 0, status |-> 0, retryable |-> FALSE]

\* no client yet
NoClient ==
  [state |-> "none",
   retries |-> 0,
   count |-> 0,
   err |-> NoError,
   delay |-> 0,
   \* history of the request
   attempts |-> 0,
   log |-> <<>>]

\* new RetryClient(opts)
RetryClient(opts) ==
  /\ request.state = "none"
  /\ request' = [NoClient EXCEPT !.state = "idle", !.retries = RetriesOf(opts)]
  /\ UNCHANGED <<storeVars, session, selected, journal, closeTimeout,
                 socketOpen, domainValid, aliasValid, notifierUp, directory,
                 login, mailboxExists, storeUp, scenario>>

\* client.request(options): `count = 1`
requestCall ==
  /\ request.state = "idle"
  /\ request' = [request EXCEPT !.state = "attempt", !.count = 1]
  /\ UNCHANGED <<storeVars, session, selected, journal, closeTimeout,
                 socketOpen, domainValid, aliasValid, notifierUp, directory,
                 login, mailboxExists, storeUp, scenario>>

\* one attempt: `await this._request(options)`, the status check and the
\* catch; the request resolves with the response, rejects with the error or
\* goes on to the delay
requestAttempt(outcome) ==
  /\ request.state = "attempt"
  /\ LET made == [request EXCEPT !.attempts = @ + 1,
                                 !.log = Append(@, outcome)]
         err == [attempt |-> made.attempts,
                 status |-> outcome.status,
                 retryable |-> outcome.retryable]
     IN request' =
          IF ~Failed(outcome) THEN [made EXCEPT !.state = "resolved"]
          ELSE IF GivesUp(request.count, request.retries, err)
            THEN [made EXCEPT !.state = "rejected", !.err = err]
          ELSE [made EXCEPT !.state = "delay",
                            !.err = err,
                            !.delay = calculateDelay(request.count)]
  /\ UNCHANGED <<storeVars, session, selected, journal, closeTimeout,
                 socketOpen, domainValid, aliasValid, notifierUp, directory,
                 login, mailboxExists, storeUp, scenario>>

\* `if (ms) await delay(ms); return this.request(options, count + 1)`
requestDelay ==
  /\ request.state = "delay"
  /\ request' = [request EXCEPT !.state = "attempt", !.count = @ + 1]
  /\ UNCHANGED <<storeVars, session, selected, journal, closeTimeout,
                 socketOpen, domainValid, aliasValid, notifierUp, directory,
                 login, mailboxExists, storeUp, scenario>>

(***************************************************************************)
(* The server, the connections and the records around the commands.        *)
(***************************************************************************)
\* the server starts to shut down: server._closeTimeout is set
serverClose ==
  /\ ~closeTimeout
  /\ closeTimeout' = TRUE
  /\ UNCHANGED <<storeVars, session, selected, journal, socketOpen,
                 domainValid, aliasValid, notifierUp, directory, login,
                 mailboxExists, storeUp, request, scenario>>

\* the socket of a session is closed or destroyed
socketClose(s) ==
  /\ socketOpen[s]
  /\ socketOpen' = [socketOpen EXCEPT ![s] = FALSE]
  /\ UNCHANGED <<storeVars, session, selected, journal, closeTimeout,
                 domainValid, aliasValid, notifierUp, directory, login,
                 mailboxExists, storeUp, request, scenario>>

\* the domain record changes (plan, suspension, members): valid or not
domainChange ==
  /\ domainValid' = ~domainValid
  /\ UNCHANGED <<storeVars, session, selected, journal, closeTimeout,
                 socketOpen, aliasValid, notifierUp, directory, login,
                 mailboxExists, storeUp, request, scenario>>

\* the notifier's store goes down or comes back
notifierChange ==
  /\ notifierUp' = ~notifierUp
  /\ UNCHANGED <<storeVars, session, selected, journal, closeTimeout,
                 socketOpen, domainValid, aliasValid, directory, login,
                 mailboxExists, storeUp, request, scenario>>

\* another connection deletes the selected mailbox: its document leaves
\* Mailboxes
mailboxDelete ==
  /\ mailboxExists
  /\ mailboxExists' = FALSE
  /\ UNCHANGED <<storeVars, session, selected, journal, closeTimeout,
                 socketOpen, domainValid, aliasValid, notifierUp, directory,
                 login, storeUp, request, scenario>>

\* the store stops answering
storeFail ==
  /\ storeUp
  /\ storeUp' = FALSE
  /\ UNCHANGED <<storeVars, session, selected, journal, closeTimeout,
                 socketOpen, domainValid, aliasValid, notifierUp, directory,
                 login, mailboxExists, request,
                 scenario>>

\* the store answers again; in the mailbox of more than a batch of messages
\* it stays down
storeRecover ==
  /\ ~storeUp
  /\ scenario # "batch"
  /\ storeUp' = TRUE
  /\ UNCHANGED <<storeVars, session, selected, journal, closeTimeout,
                 socketOpen, domainValid, aliasValid, notifierUp, directory,
                 login, mailboxExists, request,
                 scenario>>

\* the alias record changes (enabled, banned user, removed): valid or not
aliasChange ==
  /\ aliasValid' = ~aliasValid
  /\ UNCHANGED <<storeVars, session, selected, journal, closeTimeout,
                 socketOpen, domainValid, notifierUp, directory, login,
                 mailboxExists, storeUp, request, scenario>>

(***************************************************************************)
(* Commands the sessions issue.                                             *)
(***************************************************************************)
Update(action, value, msgs, hasSince, since, silent, isUid) ==
  [action |-> action, value |-> value, messages |-> msgs,
   hasUnchangedSince |-> hasSince, unchangedSince |-> since,
   silent |-> silent, isUid |-> isUid]

Actions == {"set", "add", "remove"}

\* flag lists of interleaved commands
Values == {<<"\\Seen">>, <<"\\Flagged">>}

\* flag lists of commands run one after another: system flags, keywords in
\* two letter cases, a repeated entry, the empty list
ValuesSeq ==
  {<<>>, <<"\\Seen">>, <<"\\Flagged">>, <<"\\Seen", "\\Flagged">>,
   <<"\\Deleted">>, <<"\\Deleted", "\\Draft">>, <<"Kw">>, <<"kw", "Kw">>,
   <<"kw", "kw">>}

\* interleaved commands: every action on the session's whole uidList, an
\* explicit selection, and a conditional (UNCHANGEDSINCE) store
Updates(s) ==
  {Update(a, v, selected[s].uidList, FALSE, 0, FALSE, FALSE) :
     a \in Actions, v \in Values}
  \cup {Update("add", <<"\\Seen">>, <<1>>, FALSE, 0, FALSE, FALSE),
        Update("set", <<"\\Flagged">>, selected[s].uidList, TRUE,
               InitModifyIndex, FALSE, FALSE)}

\* commands run one after another: every action with every flag list,
\* conditional stores around the messages' modseqs, silent and UID variants
UpdatesSeq(s) ==
  {Update(a, v, m, FALSE, 0, FALSE, TRUE) :
     a \in Actions, v \in ValuesSeq, m \in {selected[s].uidList, <<1>>}}
  \cup {Update(a, <<"\\Flagged">>, selected[s].uidList, TRUE, u, FALSE, TRUE) :
          a \in Actions, u \in 0..(InitModifyIndex + 1)}
  \cup {Update("add", <<"\\Seen">>, selected[s].uidList, FALSE, 0, sl, iu) :
          sl \in BOOLEAN, iu \in BOOLEAN}

\* `add` commands run one after another
UpdatesAdd(s) ==
  {Update("add", v, m, FALSE, 0, FALSE, TRUE) :
     v \in ValuesSeq, m \in {selected[s].uidList, <<1>>}}
  \cup {Update("add", <<"\\Flagged">>, selected[s].uidList, TRUE,
               InitModifyIndex - 1, FALSE, TRUE)}

\* `remove` commands run one after another
UpdatesRemove(s) ==
  {Update("remove", v, m, FALSE, 0, FALSE, TRUE) :
     v \in ValuesSeq, m \in {selected[s].uidList, <<1>>}}
  \cup {Update("remove", <<"\\Seen">>, selected[s].uidList, TRUE,
               InitModifyIndex - 1, FALSE, TRUE)}

\* `set` commands run one after another
UpdatesSet(s) ==
  {Update("set", v, m, FALSE, 0, FALSE, TRUE) :
     v \in ValuesSeq, m \in {selected[s].uidList, <<1>>}}
  \cup {Update("set", <<"\\Seen">>, selected[s].uidList, TRUE,
               InitModifyIndex - 1, FALSE, TRUE)}

\* the keyword flags kw<from+1> .. kw<from+n>
Keywords(from, n) == [i \in 1..n |-> "kw" \o ToString(from + i)]

\* interleaved commands that each supply NumNewFlags flags new to the
\* mailbox, every session its own
UpdatesVocabulary(s) ==
  LET value == Keywords(MAX_MAILBOX_FLAGS * s, NumNewFlags)
  IN {Update("add", value, selected[s].uidList, FALSE, 0, FALSE, TRUE),
      Update("set", value, <<1>>, FALSE, 0, FALSE, TRUE),
      Update("remove", value, selected[s].uidList, FALSE, 0, FALSE, TRUE)}

\* commands run one after another that put \Deleted on messages and take it
\* off
UpdatesDeleted(s) ==
  {Update(a, <<"\\Deleted">>, m, FALSE, 0, FALSE, TRUE) :
     a \in Actions, m \in {selected[s].uidList, <<2>>}}
  \cup {Update("set", v, selected[s].uidList, FALSE, 0, FALSE, TRUE) :
          v \in {<<"\\Seen">>, <<"\\Deleted", "\\Draft">>}}
  \cup {Update("remove", <<"\\Deleted", "\\Draft">>, selected[s].uidList,
               FALSE, 0, FALSE, TRUE)}
  \cup {Update("remove", <<"\\Deleted">>, selected[s].uidList, TRUE,
               InitModifyIndex - 1, FALSE, TRUE)}

\* commands run one after another while the server, the sockets and the
\* records change
UpdatesSession(s) ==
  {Update("add", <<"\\Seen">>, selected[s].uidList, FALSE, 0, FALSE, TRUE),
   Update("set", <<"\\Flagged">>, selected[s].uidList, TRUE,
          InitModifyIndex - 1, FALSE, TRUE)}

\* commands that write to every message of the selection
UpdatesBatch(s) ==
  {Update("add", <<"Kw">>, selected[s].uidList, FALSE, 0, FALSE, TRUE)}

Inputs(s) ==
  CASE scenario = "interleaved" -> Updates(s)
    [] scenario = "session" -> UpdatesSession(s)
    [] scenario = "notifier" -> UpdatesSession(s)
    [] scenario = "gone" -> UpdatesSession(s)
    [] scenario = "errors" -> UpdatesSession(s)
    [] scenario = "batch" -> UpdatesBatch(s)
    [] scenario = "deleted" -> UpdatesDeleted(s)
    [] scenario = "vocabulary" -> UpdatesVocabulary(s)
    [] scenario = "sequence" -> UpdatesSeq(s)
    [] scenario = "add" -> UpdatesAdd(s)
    [] scenario = "remove" -> UpdatesRemove(s)
    [] scenario = "set" -> UpdatesSet(s)

MailboxIds == {"mailbox", "missing"}

\* the mailbox ids of the STORE commands: the selected mailbox, an id no
\* mailbox has and, between the records' changes, the id of the other
\* alias's mailbox
StoreMailboxIds ==
  IF scenario = "session" THEN MailboxIds \cup {ForeignMailbox.id}
  ELSE MailboxIds

\* the paths of the SUBSCRIBE commands: both aliases have an INBOX
Paths == {"INBOX", "Missing"}

(***************************************************************************)
(* Initial states.                                                          *)
(***************************************************************************)
\* message uid was last changed at a modseq of 1..InitModifyIndex
InitModseq(uid) == ((uid - 1) % InitModifyIndex) + 1

\* session 1 selected the mailbox with every message in it and enabled
\* CONDSTORE; session 2 selected it before the last message was appended
InitSelected(n) ==
  <<[uidList |-> Ascending(1..n), condstoreEnabled |-> TRUE],
    [uidList |-> Ascending(1..(n - 1)), condstoreEnabled |-> FALSE]>>

InitFlags == <<<<>>, <<"\\Seen">>, <<"\\Seen", "\\Flagged">>>>
InitFlagsB == <<<<"kw">>, <<"\\Deleted">>, <<"\\Seen", "\\Draft">>>>
InitFlagsC ==
  <<<<"\\Seen", "\\Flagged", "\\Draft">>, <<"kw", "Kw", "\\Deleted">>, <<>>>>

FlagsOf(table, uid) == table[((uid - 1) % Len(table)) + 1]

\* the mailbox of the other alias
InitForeign ==
  [modifyIndex |-> InitModifyIndex, flags |-> <<>>, specialUse |-> "",
   subscribed |-> FALSE,
   messages |-> <<NewMessage(<<"\\Seen">>, InitModifyIndex, "")>>]

InitCommon ==
  /\ modifyIndex = InitModifyIndex
  /\ mailboxFlags = <<>>
  /\ subscribed = FALSE
  /\ foreign = InitForeign
  /\ session = [s \in Sessions |-> IdleSession]
  /\ journal = {}
  /\ closeTimeout = FALSE
  /\ socketOpen = [s \in Sessions |-> TRUE]
  /\ domainValid = TRUE
  /\ aliasValid = TRUE
  /\ notifierUp = TRUE
  /\ mailboxExists = TRUE
  /\ storeUp = TRUE
  /\ directory = InitDirectory
  /\ login = [s \in Sessions |-> Authenticated]
  /\ request = NoClient

\* a mailbox of n messages in one of the given (specialUse, flags) layouts
InitMailbox(n, layouts) ==
  /\ selected = InitSelected(n)
  /\ \E init \in layouts :
       /\ specialUse = init[1]
       /\ messages = [uid \in 1..n |->
                        NewMessage(FlagsOf(init[2], uid), InitModseq(uid),
                                   init[1])]

Init ==
  /\ InitCommon
  /\ scenario = "interleaved"
  /\ InitMailbox(NumMessages, {<<"", InitFlags>>})

InitSeq ==
  /\ InitCommon
  /\ scenario = "sequence"
  /\ InitMailbox(NumMessagesSeq, {<<"", InitFlags>>, <<"\\Trash", InitFlagsB>>})

InitAdd ==
  /\ InitCommon
  /\ scenario = "add"
  /\ InitMailbox(NumMessagesSeq, {<<"", InitFlags>>, <<"\\Trash", InitFlagsB>>})

InitRemove ==
  /\ InitCommon
  /\ scenario = "remove"
  /\ InitMailbox(NumMessagesSeq, {<<"", InitFlagsC>>, <<"\\Trash", InitFlagsB>>})

InitSet ==
  /\ InitCommon
  /\ scenario = "set"
  /\ InitMailbox(NumMessagesSeq, {<<"", InitFlagsC>>, <<"\\Trash", InitFlagsB>>})

InitDeleted ==
  /\ InitCommon
  /\ scenario = "deleted"
  /\ InitMailbox(NumMessagesSeq,
                 {<<"", InitFlagsC>>, <<"\\Trash", InitFlagsB>>,
                  <<"\\Junk", InitFlagsB>>, <<"\\Archive", InitFlagsB>>})

InitSession ==
  /\ InitCommon
  /\ scenario = "session"
  /\ InitMailbox(NumMessages, {<<"", InitFlags>>})

InitNotifier ==
  /\ InitCommon
  /\ scenario = "notifier"
  /\ InitMailbox(NumMessages, {<<"", InitFlags>>})

InitGone ==
  /\ InitCommon
  /\ scenario = "gone"
  /\ InitMailbox(NumMessages, {<<"", InitFlags>>})

\* no RetryClient yet
InitRetry ==
  /\ InitCommon
  /\ scenario = "retry"
  /\ InitMailbox(NumMessages, {<<"", InitFlags>>})

\* a mailbox of a few messages
InitCompletion ==
  /\ InitCommon
  /\ scenario = "errors"
  /\ InitMailbox(NumMessages, {<<"", InitFlags>>})

\* a mailbox of a few messages, or of one message more than a batch of
\* writes holds
InitErrors ==
  /\ InitCommon
  /\ \/ /\ scenario = "errors"
        /\ InitMailbox(NumMessages, {<<"", InitFlags>>})
     \/ /\ scenario = "batch"
        /\ InitMailbox(MAX_BULK_WRITE_SIZE + 1, {<<"", InitFlags>>})

\* earlier commands have registered so many keywords that NumNewFlags more
\* fill the vocabulary (the system flags count towards the limit)
InitVocabulary ==
  /\ modifyIndex = InitModifyIndex
  /\ mailboxFlags = Keywords(0, MAX_MAILBOX_FLAGS - Len(systemFlags)
                                  - NumNewFlags)
  /\ subscribed = FALSE
  /\ foreign = InitForeign
  /\ session = [s \in Sessions |-> IdleSession]
  /\ journal = {}
  /\ closeTimeout = FALSE
  /\ socketOpen = [s \in Sessions |-> TRUE]
  /\ domainValid = TRUE
  /\ aliasValid = TRUE
  /\ notifierUp = TRUE
  /\ mailboxExists = TRUE
  /\ storeUp = TRUE
  /\ directory = InitDirectory
  /\ login = [s \in Sessions |-> Authenticated]
  /\ request = NoClient
  /\ scenario = "vocabulary"
  /\ InitMailbox(NumMessages, {<<"", InitFlags>>})

\* no session has authenticated; the paid domain publishes any of the
\* TxtRecords and the alias has a generated token or none
InitAuth ==
  /\ modifyIndex = InitModifyIndex
  /\ mailboxFlags = <<>>
  /\ subscribed = FALSE
  /\ foreign = InitForeign
  /\ session = [s \in Sessions |-> IdleSession]
  /\ journal = {}
  /\ closeTimeout = FALSE
  /\ socketOpen = [s \in Sessions |-> TRUE]
  /\ domainValid = TRUE
  /\ aliasValid = TRUE
  /\ notifierUp = TRUE
  /\ mailboxExists = TRUE
  /\ storeUp = TRUE
  /\ \E records \in TxtRecords : \E tokens \in {{}, {"token1"}} :
       directory = [InitDirectory EXCEPT !.txt["example.com"] = records,
                                         !.tokens = tokens]
  /\ login = [s \in Sessions |-> Unauthenticated]
  /\ request = NoClient
  /\ scenario = "auth"
  /\ InitMailbox(NumMessages, {<<"", InitFlags>>})

(***************************************************************************)
(* Specifications.                                                          *)
(***************************************************************************)
RECURSIVE Issued(_)
\* the commands the sessions of S have issued
Issued(S) ==
  IF S = {} THEN 0
  ELSE LET s == CHOOSE x \in S : TRUE
       IN session[s].commands + Issued(S \ {s})

\* a session's connection decodes a STORE command; unless the scenario
\* interleaves commands, no other command is in progress
StoreCommand(s) ==
  /\ Issued(Sessions) < MaxCommands
  /\ \/ scenario \in {"interleaved", "vocabulary"}
     \/ \A t \in Sessions : session[t].pc \in {"idle", "done"}
  /\ \E upd \in Inputs(s) : \E mailboxId \in StoreMailboxIds :
       onStoreBegin(s, mailboxId, upd)

\* a session's connection decodes a SUBSCRIBE command
SubscribeCommand(s) ==
  /\ Issued(Sessions) < MaxCommands
  /\ \A t \in Sessions : session[t].pc \in {"idle", "done"}
  /\ \E path \in Paths : onSubscribe(s, path)

Next ==
  \E s \in Sessions :
    \/ StoreCommand(s)
    \/ onStoreFetch(s)
    \/ onStoreModseq(s)
    \/ onStoreWrite(s)
    \/ onStoreNotify(s)
    \/ onStoreFinish(s)

\* a connection that has not authenticated sends its credentials
AuthCommand(s) ==
  /\ login[1].attempts + login[2].attempts < MaxCommands
  /\ \E username \in Usernames : \E password \in Passwords :
       \E limited \in BOOLEAN : onAuth(s, username, password, limited)

\* the authentications, and the changes around them
NextAuth ==
  \/ \E s \in Sessions : AuthCommand(s)
  \/ serverClose
  \/ \E s \in Sessions : socketClose(s)

\* the commands, and the changes around them
NextSession ==
  \/ Next
  \/ \E s \in Sessions : SubscribeCommand(s)
  \/ serverClose
  \/ \E s \in Sessions : socketClose(s)
  \/ domainChange
  \/ aliasChange

\* the commands, and the deletion of the mailbox
NextGone ==
  \/ Next
  \/ mailboxDelete

\* the commands, and the store failing and recovering
NextErrors ==
  \/ Next
  \/ \E s \in Sessions : onStoreWriteFails(s)
  \/ storeFail
  \/ storeRecover

\* the next step of session s's invocation: the store call or the notifier
\* call it awaits returns or throws
onStoreStep(s) ==
  \/ onStoreFetch(s)
  \/ onStoreModseq(s)
  \/ onStoreWrite(s)
  \/ onStoreWriteFails(s)
  \/ onStoreNotify(s)
  \/ onStoreFinish(s)

\* the commands, the store failing and recovering, the server shutting down
\* and sockets closing
NextCompletion ==
  \/ NextErrors
  \/ serverClose
  \/ \E s \in Sessions : socketClose(s)

\* a RetryClient is constructed and given one request
NextRetry ==
  \/ \E opts \in Options : RetryClient(opts)
  \/ requestCall
  \/ \E outcome \in Outcomes : requestAttempt(outcome)
  \/ requestDelay

\* the commands, and the notifier failing and recovering
NextNotifier ==
  \/ Next
  \/ notifierChange

\* interleaved commands of the sessions
Spec == Init /\ [][Next]_vars

\* commands run one after another
SpecSeq == InitSeq /\ [][Next]_vars

\* `add` commands run one after another
SpecAdd == InitAdd /\ [][Next]_vars

\* `remove` commands run one after another
SpecRemove == InitRemove /\ [][Next]_vars

\* `set` commands run one after another
SpecSet == InitSet /\ [][Next]_vars

\* commands about \Deleted run one after another, in mailboxes with and
\* without special-use
SpecDeleted == InitDeleted /\ [][Next]_vars

\* STORE and SUBSCRIBE commands run one after another while the server shuts
\* down, sockets close and the domain and alias records change
SpecSession == InitSession /\ [][NextSession]_vars

\* commands run one after another while the notifier fails and recovers
SpecNotifier == InitNotifier /\ [][NextNotifier]_vars

\* interleaved commands on a mailbox whose vocabulary is nearly full
SpecVocabulary == InitVocabulary /\ [][Next]_vars

\* commands run one after another while the selected mailbox is deleted
SpecGone == InitGone /\ [][NextGone]_vars

\* commands run one after another while the store fails and recovers
SpecErrors == InitErrors /\ [][NextErrors]_vars

\* commands run one after another on a mailbox of a few messages while the
\* store fails and recovers, the server shuts down and sockets close; every
\* call an invocation awaits returns or throws
SpecCompletion ==
  /\ InitCompletion
  /\ [][NextCompletion]_vars
  /\ \A s \in Sessions : WF_vars(onStoreStep(s))

\* one request of a RetryClient
SpecRetry == InitRetry /\ [][NextRetry]_vars

\* connections authenticate while the server shuts down and sockets close
SpecAuth == InitAuth /\ [][NextAuth]_vars

(***************************************************************************)
(* Properties.                                                              *)
(***************************************************************************)
\* the messages an invocation has streamed, as read from the store
Records(s) == SeqToSet(session[s].streamed)

\* the writes and change entries an invocation has staged
Staged(s) == SeqToSet(session[s].bulkWrite)
StagedUids(s) == {w.uid : w \in Staged(s)}
EntryUids(s) == {e.uid : e \in SeqToSet(session[s].entries)}
ResponseUids(s) == {r.id : r \in SeqToSet(session[s].responses)}

\* the uid is in the command's target selection
Targeted(s, uid) == uid \in SeqToSet(session[s].update.messages)

\* the session has completed a command with success
Completed(s) == session[s].pc = "done" /\ session[s].result.kind = "ok"

\* C1: within one onStore invocation all staged writes carry one and the
\* same modseq, and it is strictly greater than the modseq each of those
\* messages held before the call.
C1_OneSharedModseq ==
  \A s \in Sessions : \A w \in Staged(s) :
    /\ \A v \in Staged(s) : v.modseq = w.modseq
    /\ w.modseq > session[s].before[w.uid].modseq

\* C2: getModseq is called at most once per onStore invocation, so one
\* invocation raises the mailbox's modifyIndex by at most 1.
C2_AtMostOneGetModseq ==
  \A s \in Sessions : session[s].getModseqCalls <= 1

\* C3: under any interleaving of onStore invocations the mailbox's
\* modifyIndex never decreases and every message's stored modseq is at most
\* the mailbox's current modifyIndex.
C3_ModseqBoundedByModifyIndex ==
  /\ [](\A uid \in DOMAIN messages : messages[uid].modseq <= modifyIndex)
  /\ [][modifyIndex' >= modifyIndex]_vars

\* two sessions have allocated modseqs and a write of each was applied
C3_Witness ==
  \E s \in Sessions : \E t \in Sessions \ {s} :
    /\ \E w \in session[s].written : w.applied
    /\ \E w \in session[t].written : w.applied
    /\ \E uid \in DOMAIN messages : messages[uid].modseq = modifyIndex

\* the uids whose stored document a write of the invocation has changed
MutatedUids(s) == {w.uid : w \in {x \in session[s].written : x.applied}}
WrittenUids(s) == {w.uid : w \in session[s].written}

\* the document was written by onStore
WrittenByStore(uid) == messages[uid].modseq > InitModifyIndex

\* C4: after any applied onStore write (set, add or remove, any flags in
\* any letter case) the stored unseen, flagged, undeleted and draft equal
\* not-Seen, Flagged, not-Deleted and Draft of the new flag set compared
\* case-insensitively, and searchable is one function of the flag set and
\* the mailbox's special-use, whichever action produced the flag set.
C4_DerivedFieldsMirrorFlags ==
  /\ \A uid \in DOMAIN messages :
       WrittenByStore(uid) =>
         /\ messages[uid].unseen = ("\\seen" \notin FlagSet(messages[uid].flags))
         /\ messages[uid].flagged = ("\\flagged" \in FlagSet(messages[uid].flags))
         /\ messages[uid].undeleted =
              ("\\deleted" \notin FlagSet(messages[uid].flags))
         /\ messages[uid].draft = ("\\draft" \in FlagSet(messages[uid].flags))
  /\ \A u \in DOMAIN messages : \A v \in DOMAIN messages :
       (/\ WrittenByStore(u) /\ WrittenByStore(v)
        /\ FlagSet(messages[u].flags) = FlagSet(messages[v].flags))
         => messages[u].searchable = messages[v].searchable

\* C5: a streamed message of the selection is in the conflict list exactly
\* when unchangedSince is supplied (0 included) and the message's modseq is
\* strictly greater than it; equal is no conflict; a conflicted message is
\* not written by the invocation.
C5_ConflictIffNewerThanUnchangedSince ==
  \A s \in Sessions : \A e \in Records(s) :
    Targeted(s, e.uid) =>
      LET newer == /\ session[s].update.hasUnchangedSince
                   /\ e.modseq > session[s].update.unchangedSince
      IN /\ (e.uid \in SeqToSet(session[s].modified)) <=> newer
         /\ newer => e.uid \notin (StagedUids(s) \cup WrittenUids(s))

\* the two invocations of the scenario: each session's first command, both
\* completed, both `set`, with different flag lists
TwoSets(s, t) ==
  /\ s # t
  /\ Completed(s) /\ Completed(t)
  /\ session[s].commands = 1 /\ session[t].commands = 1
  /\ session[s].update.action = "set" /\ session[t].update.action = "set"
  /\ session[s].update.value # session[t].update.value

\* C6: when two concurrent `set` invocations with different flag lists wrote
\* to the same message, then after both completed, in every interleaving,
\* the message's stored modseq is the higher of the two allocated modseqs
\* and its flags are the list of the invocation that got the higher one.
C6_HigherModseqWins ==
  \A s \in Sessions : \A t \in Sessions :
    TwoSets(s, t) =>
      \A ws \in session[s].written : \A wt \in session[t].written :
        (ws.uid = wt.uid /\ ws.modseq > wt.modseq) =>
          /\ messages[ws.uid].modseq = ws.modseq
          /\ messages[ws.uid].flags = session[s].update.value

\* both invocations staged a write to one message and the store dropped the
\* write with the lower modseq, which arrived second
C6_Witness ==
  \E s \in Sessions : \E t \in Sessions :
    /\ TwoSets(s, t)
    /\ \E ws \in session[s].written : \E wt \in session[t].written :
         /\ ws.uid = wt.uid /\ ws.modseq > wt.modseq
         /\ ws.applied /\ ~wt.applied

\* C7: onStore changes no message outside the command's target selection:
\* a step that changes a stored message is a step of a session whose
\* selection (explicit, or every uid of its cached uidList) holds that uid.
C7_OnlySelectionChanges ==
  [][\A uid \in DOMAIN messages :
       messages'[uid] # messages[uid] =>
         \E s \in Sessions : session'[s] # session[s] /\ Targeted(s, uid)]_vars

\* one session wrote under a wildcard selection and discarded a fetched
\* message missing from its uidList; another wrote under an explicit
\* selection smaller than its uidList
C7_Witness ==
  \E s \in Sessions : \E t \in Sessions :
    /\ Completed(s) /\ session[s].queryAll /\ MutatedUids(s) # {}
    /\ \E e \in Records(s) : ~Targeted(s, e.uid)
    /\ Completed(t) /\ ~session[t].queryAll /\ MutatedUids(t) # {}
    /\ \E uid \in DOMAIN messages : ~Targeted(t, uid)

\* the streamed messages for which the command computes `updated` false
NotUpdated(s) ==
  {e \in Records(s) :
     ~ComputeFlags(session[s].update.action, e.flags, session[s].update.value,
                   session[s].mailbox.specialUse).updated}

\* C8: for a streamed message whose computed `updated` is false onStore
\* writes no response, stages no write and no change entry and allocates
\* no modseq; an invocation that updates no message leaves the mailbox's
\* modifyIndex and every message unchanged.
C8_NotUpdatedIsNoOp ==
  /\ [](\A s \in Sessions :
          /\ \A e \in NotUpdated(s) :
               e.uid \notin (ResponseUids(s) \cup StagedUids(s)
                               \cup EntryUids(s) \cup WrittenUids(s))
          /\ session[s].getModseqCalls
               <= Cardinality(Records(s) \ NotUpdated(s)))
  /\ [][(modifyIndex' # modifyIndex \/ messages' # messages) =>
          \E s \in Sessions :
            session'[s] # session[s] /\ Records(s) # NotUpdated(s)]_vars

\* a completed command with a selected, unconflicted message it did not
\* update and another it did update, and a completed command that updated
\* none
C8_Witness ==
  \E s \in Sessions : \E t \in Sessions :
    /\ Completed(s)
    /\ \E e \in NotUpdated(s) :
         Targeted(s, e.uid) /\ e.uid \notin SeqToSet(session[s].modified)
    /\ MutatedUids(s) # {}
    /\ Completed(t)
    /\ Records(t) # {} /\ Records(t) = NotUpdated(t)
    /\ session[t].modified = <<>>

\* C9: a `set` whose supplied list, as a case-insensitive set (whatever its
\* order, letter case or repeated entries), equals the message's current
\* flag set stages no write and no change entry for that message.
C9_SetOfSameFlagSetWritesNothing ==
  \A s \in Sessions :
    session[s].update.action = "set" =>
      \A e \in Records(s) :
        FlagSet(e.flags) = FlagSet(session[s].update.value) =>
          e.uid \notin (StagedUids(s) \cup EntryUids(s) \cup WrittenUids(s))

\* a supplied flag was not yet on the message
SomeFlagAbsent(value, flags) ==
  \E i \in DOMAIN value : getFlag(value[i]) \notin FlagSet(flags)

\* C10: `add` mutates a selected, unconflicted message if and only if a
\* supplied flag was not already present (compared case-insensitively), and
\* the mutated message then holds the case-insensitive union of its flags
\* and the supplied flags.
C10_AddIsCaseInsensitiveUnion ==
  /\ [](\A s \in Sessions :
          (Completed(s) /\ session[s].update.action = "add") =>
            \A e \in Records(s) :
              (Targeted(s, e.uid)
                 /\ e.uid \notin SeqToSet(session[s].modified)) =>
                (e.uid \in MutatedUids(s)
                   <=> SomeFlagAbsent(session[s].update.value, e.flags)))
  /\ [][\A s \in Sessions : \A uid \in DOMAIN messages :
          (/\ session[s].update.action = "add"
           /\ session'[s] # session[s]
           /\ messages'[uid] # messages[uid]) =>
            FlagSet(messages'[uid].flags) =
              FlagSet(messages[uid].flags)
                \cup FlagSet(session[s].update.value)]_vars

\* Scenario A and its repetition: `add \Flagged` to messages with flags [],
\* [\Seen], [\Seen, \Flagged] mutated exactly the first two, and the same
\* add by the other session afterwards mutated none
C10_Witness ==
  \E s \in Sessions : \E t \in Sessions \ {s} :
    /\ Completed(s) /\ Completed(t)
    /\ session[s].update.action = "add" /\ session[t].update.action = "add"
    /\ session[s].update.value = <<"\\Flagged">>
    /\ session[t].update.value = <<"\\Flagged">>
    /\ session[s].update.messages = <<1, 2, 3>>
    /\ [i \in 1..3 |-> session[s].before[i].flags] = InitFlags
    /\ MutatedUids(s) = {1, 2}
    /\ [i \in 1..3 |-> messages[i].flags]
         = <<<<"\\Flagged">>, <<"\\Seen", "\\Flagged">>,
             <<"\\Seen", "\\Flagged">>>>
    /\ session[t].before = messages
    /\ Records(t) # {} /\ MutatedUids(t) = {}

\* a supplied flag was on the message
SomeFlagPresent(value, flags) ==
  \E i \in DOMAIN value : getFlag(value[i]) \in FlagSet(flags)

\* C11: `remove` deletes from a message exactly the stored flags that match
\* a supplied flag case-insensitively and keeps every other flag in its
\* original order; it mutates a selected, unconflicted message if and only
\* if at least one supplied flag was present.
C11_RemoveIsCaseInsensitiveSubtraction ==
  /\ [](\A s \in Sessions :
          (Completed(s) /\ session[s].update.action = "remove") =>
            \A e \in Records(s) :
              (Targeted(s, e.uid)
                 /\ e.uid \notin SeqToSet(session[s].modified)) =>
                (e.uid \in MutatedUids(s)
                   <=> SomeFlagPresent(session[s].update.value, e.flags)))
  /\ [][\A s \in Sessions : \A uid \in DOMAIN messages :
          (/\ session[s].update.action = "remove"
           /\ session'[s] # session[s]
           /\ messages'[uid] # messages[uid]) =>
            messages'[uid].flags =
              SelectSeq(messages[uid].flags,
                        LAMBDA f : \A i \in DOMAIN session[s].update.value :
                                     getFlag(f) # getFlag(session[s].update.value[i]))]_vars

\* removing \Flagged from [\Seen, \Flagged, \Draft] left [\Seen, \Draft], and
\* removing Kw took both kw and Kw off a message and left its \Deleted
C11_Witness ==
  \E s \in Sessions : \E t \in Sessions \ {s} :
    /\ Completed(s) /\ Completed(t)
    /\ session[s].update.action = "remove"
    /\ session[s].update.value = <<"\\Flagged">>
    /\ session[s].before[1].flags = <<"\\Seen", "\\Flagged", "\\Draft">>
    /\ 1 \in MutatedUids(s) /\ 3 \notin MutatedUids(s)
    /\ messages[1].flags = <<"\\Seen", "\\Draft">>
    /\ session[t].update.action = "remove"
    /\ session[t].update.value = <<"Kw">>
    /\ session[t].before[2].flags = <<"kw", "Kw", "\\Deleted">>
    /\ messages[2].flags = <<"\\Deleted">>

\* C12: a `set` with flag list V mutates every selected, unconflicted
\* message whose flag set differs from V, and the message's stored flags are
\* then exactly V: every previous flag not in V is gone.
C12_SetReplacesFlags ==
  \A s \in Sessions :
    session[s].update.action = "set" =>
      /\ \A w \in Staged(s) :
           w.update.op = "$set" /\ w.update.flags = session[s].update.value
      /\ Completed(s) =>
           \A e \in Records(s) :
             (/\ Targeted(s, e.uid)
              /\ e.uid \notin SeqToSet(session[s].modified)
              /\ FlagSet(e.flags) # FlagSet(session[s].update.value)) =>
               e.uid \in MutatedUids(s)

\* C13: after any add/set onStore invocations, concurrent ones from
\* different sessions included, the mailbox's known-flag vocabulary never
\* holds more than 100 entries, and every supplied flag new to a message is
\* still put on the message, registered or not.
C13_VocabularyAtMost100 ==
  /\ Len(mailboxFlags) <= MAX_MAILBOX_FLAGS
  /\ \A s \in Sessions : \A w \in Staged(s) :
       session[s].update.action \in {"add", "set"} =>
         FlagSet(session[s].update.value)
           \subseteq FlagSet(session[s].before[w.uid].flags)
                       \cup FlagSet(w.update.flags)

\* the step is a write of session s that changes the stored message uid
Mutates(s, uid) ==
  session'[s] # session[s] /\ messages'[uid] # messages[uid]

\* the command of session s is `remove` of exactly \Deleted
RemovesDeleted(s) ==
  session[s].update.action = "remove"
    /\ session[s].update.value = <<"\\Deleted">>

\* the command of session s is `set` with \Deleted in the list
SetsDeleted(s) ==
  session[s].update.action = "set"
    /\ includes(session[s].update.value, "\\Deleted")

\* C14 as stated: `remove \Deleted` makes the message's searchable marker
\* present both in a mailbox whose special-use is Trash and in a mailbox
\* without special-use, and `set` with \Deleted in the list makes searchable
\* absent in any mailbox.
C14_RemoveDeletedMakesSearchable ==
  [][\A s \in Sessions : \A uid \in DOMAIN messages :
       Mutates(s, uid) =>
         /\ RemovesDeleted(s) => messages'[uid].searchable
         /\ SetsDeleted(s) => ~messages'[uid].searchable]_vars

\* C14 amended: `remove \Deleted` makes the message's searchable marker
\* present in a mailbox without special-use and leaves the marker as it was in
\* a mailbox whose special-use is Trash or Junk; `set` with \Deleted in the
\* list makes searchable absent in any mailbox.
C14_RemoveDeletedUnlessTrashOrJunk ==
  [][\A s \in Sessions : \A uid \in DOMAIN messages :
       Mutates(s, uid) =>
         /\ RemovesDeleted(s) =>
              IF specialUse \in {"\\Trash", "\\Junk"}
                THEN messages'[uid].searchable = messages[uid].searchable
                ELSE messages'[uid].searchable
         /\ SetsDeleted(s) => ~messages'[uid].searchable]_vars

\* in a Trash mailbox `remove \Deleted` took \Deleted off a message, which
\* stayed not searchable, and a `set` with \Deleted in the list then wrote
\* another message, not searchable either
C14_Witness ==
  \E s \in Sessions : \E t \in Sessions \ {s} :
    /\ specialUse = "\\Trash"
    /\ Completed(s) /\ RemovesDeleted(s)
    /\ 2 \in MutatedUids(s)
    /\ session[s].before[2].flags = <<"\\Deleted">>
    /\ Completed(t) /\ SetsDeleted(t)
    /\ session[t].before[2].flags = <<>>
    /\ session[t].before[2].undeleted /\ ~session[t].before[2].searchable
    /\ 1 \in MutatedUids(t)
    /\ ~messages[1].undeleted /\ ~messages[1].searchable

\* the step starts a command of session s
Begins(s, command) ==
  /\ session'[s].commands = session[s].commands + 1
  /\ session'[s].command = command

\* the command of session s has ended with the given result
Ended(s, command, kind) ==
  /\ session[s].pc = "done"
  /\ session[s].command = command
  /\ session[s].result.kind = kind

\* C15: if the server is shutting down or the session's socket is not open
\* when onStore starts, the invocation ends at once without success: it
\* allocates no modseq, writes no message, sends no per-message response and
\* delivers no change entry.
C15_NoWorkAfterShutdownOrClosedSocket ==
  /\ [][\A s \in Sessions :
          (Begins(s, "STORE") /\ (closeTimeout \/ ~socketOpen[s])) =>
            /\ session'[s].pc = "done"
            /\ session'[s].result.kind \notin {"ok", "NONEXISTENT"}
            /\ modifyIndex' = modifyIndex
            /\ messages' = messages
            /\ journal' = journal]_vars
  /\ [](\A s \in Sessions :
          (Ended(s, "STORE", "ServerShutdownError")
             \/ Ended(s, "STORE", "SocketError")) =>
            /\ session[s].getModseqCalls = 0
            /\ session[s].written = {}
            /\ session[s].bulkWrite = <<>>
            /\ session[s].responses = <<>>
            /\ session[s].entries = <<>>)

\* a STORE of a session whose socket had closed failed, then the server
\* began to shut down and the STORE of the other session failed; the
\* mailbox is as it was
C15_Witness ==
  \E s \in Sessions : \E t \in Sessions \ {s} :
    /\ Ended(s, "STORE", "SocketError")
    /\ Ended(t, "STORE", "ServerShutdownError")
    /\ socketOpen[t]
    /\ modifyIndex = InitModifyIndex
    /\ \A uid \in DOMAIN messages : messages[uid].modseq <= InitModifyIndex

\* the results with which refreshSession lets a command through
Admitted == {"none", "ok", "NONEXISTENT"}

\* C16: every onStore and onSubscribe invocation calls refreshSession before
\* it touches the store, and refreshSession decides from the domain and
\* alias records as they are at that moment: a command issued while the
\* domain or the alias is invalid fails and changes nothing, whatever earlier
\* commands of the session did, and a command issued while both are valid
\* (server up, socket open) is let through.
C16_RefreshSessionOnEveryCommand ==
  [][\A s \in Sessions : \A command \in {"STORE", "SUBSCRIBE"} :
       Begins(s, command) =>
         IF ~domainValid \/ ~aliasValid
           THEN /\ session'[s].pc = "done"
                /\ session'[s].result.kind \notin Admitted
                /\ UNCHANGED <<modifyIndex, mailboxFlags, messages,
                               subscribed, foreign, journal>>
           ELSE (~closeTimeout /\ socketOpen[s]) =>
                  session'[s].result.kind \in Admitted]_vars

\* a session's STORE succeeded and wrote messages, then the alias became
\* invalid and the same session's SUBSCRIBE failed and subscribed nothing
C16_Witness ==
  \E s \in Sessions : \E t \in Sessions \ {s} :
    /\ session[t].commands = 0
    /\ session[s].commands = 2
    /\ journal # {}
    /\ \E uid \in DOMAIN messages : messages[uid].modseq > InitModifyIndex
    /\ Ended(s, "SUBSCRIBE", "AliasError")
    /\ ~subscribed

\* C17: refreshSession fails with a different error kind for each of: server
\* shutting down, socket not open, domain invalid, alias invalid, and the
\* checks run in that order, so that the first failing check decides the
\* error (a shutdown is reported even when the socket is also closed).
C17_FirstFailingCheckDecides ==
  [][\A s \in Sessions : \A command \in {"STORE", "SUBSCRIBE"} :
       Begins(s, command) =>
         LET kind == session'[s].result.kind
         IN /\ closeTimeout <=> kind = "ServerShutdownError"
            /\ (~closeTimeout /\ ~socketOpen[s]) <=> kind = "SocketError"
            /\ (~closeTimeout /\ socketOpen[s] /\ ~domainValid)
                 <=> kind = "DomainError"
            /\ (~closeTimeout /\ socketOpen[s] /\ domainValid /\ ~aliasValid)
                 <=> kind = "AliasError"]_vars

\* a SUBSCRIBE failed on the domain while the alias was invalid too, and a
\* STORE of the other session failed on the shutdown while its socket was
\* closed too
C17_Witness ==
  \E s \in Sessions : \E t \in Sessions \ {s} :
    /\ Ended(t, "SUBSCRIBE", "DomainError")
    /\ ~domainValid /\ ~aliasValid
    /\ Ended(s, "STORE", "ServerShutdownError")
    /\ closeTimeout /\ ~socketOpen[s]

\* C18: if the mailbox id does not exist or the mailbox belongs to another
\* alias than the session's revalidated alias, onStore completes with the
\* NONEXISTENT condition and changes no message, no modifyIndex and no flag
\* vocabulary; no invocation by a session of one alias ever changes the
\* counter, vocabulary or messages of a mailbox owned by another alias.
C18_ForeignOrMissingMailboxIsNonexistent ==
  [][/\ \A s \in Sessions :
          (/\ Begins(s, "STORE")
           /\ refreshSession(s, "STORE") = "ok"
           /\ session'[s].mailboxId # OwnMailbox.id) =>
            /\ session'[s].pc = "done"
            /\ session'[s].result.kind = "NONEXISTENT"
            /\ UNCHANGED <<modifyIndex, mailboxFlags, messages, journal>>
     /\ foreign' = foreign]_vars

\* a STORE on the id of the other alias's mailbox and a STORE on an id no
\* mailbox has both ended with NONEXISTENT; the other alias's mailbox and the
\* selected mailbox are as they were
C18_Witness ==
  \E s \in Sessions : \E t \in Sessions \ {s} :
    /\ Ended(s, "STORE", "NONEXISTENT")
    /\ session[s].mailboxId = ForeignMailbox.id
    /\ Ended(t, "STORE", "NONEXISTENT")
    /\ session[t].mailboxId = "missing"
    /\ foreign = InitForeign
    /\ modifyIndex = InitModifyIndex /\ mailboxFlags = <<>>

\* the streamed messages of the selection whose modseq was newer than the
\* command's unchangedSince
Conflicted(s) ==
  {e.uid : e \in {r \in Records(s) :
                    /\ Targeted(s, r.uid)
                    /\ session[s].update.hasUnchangedSince
                    /\ r.modseq > session[s].update.unchangedSince}}

\* C19: an onStore invocation on the selected mailbox completes with
\* success, conflicted messages or not, and returns exactly the uids of the
\* conflicted messages: the empty list when unchangedSince was not supplied
\* or no selected message had a newer modseq.
C19_ReturnsExactlyConflictedUids ==
  \A s \in Sessions :
    (/\ session[s].pc = "done"
     /\ session[s].command = "STORE"
     /\ session[s].mailboxId = OwnMailbox.id) =>
      /\ session[s].result.kind = "ok"
      /\ SeqToSet(session[s].result.modified) = Conflicted(s)
      /\ Len(session[s].result.modified) = Cardinality(Conflicted(s))

\* the step is the notifier call of session s
Notifies(s) ==
  session[s].pc \in {"notify", "notify-bulk"} /\ session'[s] # session[s]

\* the streamed messages the command had to update
Updated(s) ==
  {e.uid : e \in {r \in Records(s) :
                    /\ ~Skipped(s, r.uid)
                    /\ ~Conflicts(session[s].update, r)
                    /\ r \notin NotUpdated(s)}}

C21_SubscribeSetsOwnMailbox ==
  [][\A s \in Sessions :
       (Begins(s, "SUBSCRIBE") /\ refreshSession(s, "SUBSCRIBE") = "ok") =>
         /\ session'[s].pc = "done"
         /\ IF session'[s].mailboxId = OwnMailbox.path
              THEN /\ subscribed'
                   /\ session'[s].result.kind = "ok"
              ELSE /\ subscribed' = subscribed
                   /\ session'[s].result.kind = "NONEXISTENT"
         /\ foreign' = foreign
         /\ UNCHANGED <<modifyIndex, mailboxFlags, specialUse, messages>>]_vars

\* both sessions subscribed to INBOX one after the other and both succeeded:
\* the second found the mailbox subscribed; the INBOX of the other alias is
\* not subscribed
C21_Witness ==
  \E s \in Sessions : \E t \in Sessions \ {s} :
    /\ Ended(s, "SUBSCRIBE", "ok") /\ session[s].mailboxId = OwnMailbox.path
    /\ Ended(t, "SUBSCRIBE", "ok") /\ session[t].mailboxId = OwnMailbox.path
    /\ subscribed
    /\ ~foreign.subscribed

\* the step is an onAuth call of session s
Authenticates(s) == login'[s].attempts = login[s].attempts + 1

\* the paid records among the TXT records of a domain
PaidRecords(domainName) ==
  {i \in DOMAIN directory.txt[domainName] : directory.txt[domainName][i].paid}

\* the username is a valid address of an alias of a domain that is not on
\* the free plan and publishes exactly one verification record, its own, and
\* the password is one of the generated tokens
Legitimate(username, password) ==
  /\ ValidUsername(username)
  /\ \E a \in Aliases : \E d \in Domains :
       /\ a.domain = d.name
       /\ SplitUsername(username) = [name |-> a.name, domainName |-> d.name]
       /\ d.plan # "free"
       /\ Cardinality(PaidRecords(d.name)) = 1
       /\ \A i \in PaidRecords(d.name) :
            directory.txt[d.name][i].value = d.verification_record
  /\ Trim(password) \in directory.tokens

\* C22: onAuth succeeds only when the username is a valid email address of an
\* existing alias of a non-free domain that publishes exactly one
\* verification TXT record, the one of that domain, and the password is one
\* of the alias's generated tokens; every other call fails and sets no
\* session user.
C22_OnlyLegitimateCredentialsAuthenticate ==
  [][\A s \in Sessions :
       Authenticates(s) =>
         IF login'[s].result = "ok"
           THEN /\ Legitimate(login'[s].username, login'[s].password)
                /\ login'[s].user # NoUser
           ELSE login'[s].user = NoUser]_vars

\* a session got in with the alias's address in capitals and a token while
\* the domain publishes its verification record beside another TXT record;
\* the other session, with the same token, did not get in as the alias of
\* the free domain
C22_Witness ==
  \E s \in Sessions : \E t \in Sessions \ {s} :
    /\ login[s].result = "ok"
    /\ login[s].username = " Alias@Example.COM "
    /\ login[s].user # NoUser
    /\ Len(directory.txt["example.com"]) = 2
    /\ login[t].username = "alias@free.example"
    /\ login[t].password = "token1"
    /\ login[t].result = "DomainError"
    /\ login[t].user = NoUser

\* the writes session s submits in the step
Submitted(s) == session'[s].written \ session[s].written

\* C23: under any interleaving of invocations a staged write is applied only
\* if the message's stored modseq is strictly less than the write's modseq,
\* so that a message's stored modseq never decreases and a write with a
\* lower modseq never replaces the result of a write with a higher one.
C23_WriteAppliedOnlyOverLowerModseq ==
  [][/\ \A s \in Sessions : \A w \in Submitted(s) :
          /\ w.applied <=> messages[w.uid].modseq < w.modseq
          /\ IF w.applied THEN messages'[w.uid].modseq = w.modseq
             ELSE messages' = messages
     /\ \A uid \in DOMAIN messages :
          /\ messages'[uid].modseq >= messages[uid].modseq
          /\ messages'[uid] # messages[uid] =>
               /\ messages'[uid].modseq > messages[uid].modseq
               /\ \E s \in Sessions : \E w \in Submitted(s) :
                    w.uid = uid /\ w.applied]_vars

\* an `add` and a `set` wrote to one message: the write of the `add`, with
\* the higher modseq, was applied first, the one of the `set` was then
\* dropped and the message holds the higher modseq
C23_Witness ==
  \E s \in Sessions : \E t \in Sessions \ {s} :
    /\ session[s].update.action = "add" /\ session[t].update.action = "set"
    /\ \E ws \in session[s].written : \E wt \in session[t].written :
         /\ ws.uid = wt.uid
         /\ ws.applied /\ ~wt.applied
         /\ wt.modseq < ws.modseq
         /\ messages[ws.uid].modseq = ws.modseq

\* C24: a write based on stale data is rejected: if a write of another
\* invocation to a message is applied between this invocation's read of the
\* message and its own write, so that the message no longer holds the modseq
\* that was read, this invocation's write is not applied.
C24_StaleWriteIsRejected ==
  [][\A s \in Sessions : \A w \in Submitted(s) : \A e \in Records(s) :
       (e.uid = w.uid /\ messages[w.uid].modseq # e.modseq) => ~w.applied]_vars

\* the step is a getModseq call of session s
CallsGetModseq(s) ==
  session'[s].getModseqCalls = session[s].getModseqCalls + 1

\* the modseq the invocation staged last: the value its last getModseq call
\* returned
LastModseq(sess) == sess.bulkWrite[Len(sess.bulkWrite)].modseq

\* C25: two getModseq calls on one mailbox never return the same value, also
\* when invocations interleave: every call returns the counter as it is
\* right after its own increment by 1, a value above every modseq returned
\* before (those of the staged writes and of the stored messages).
C25_GetModseqReturnsFreshValue ==
  [][\A s \in Sessions :
       CallsGetModseq(s) =>
         /\ modifyIndex' = modifyIndex + 1
         /\ LastModseq(session'[s]) = modifyIndex'
         /\ \A t \in Sessions : \A w \in Staged(t) :
              w.modseq < LastModseq(session'[s])
         /\ \A uid \in DOMAIN messages :
              messages[uid].modseq < LastModseq(session'[s])]_vars

\* the invocations of the two sessions interleaved three getModseq calls and
\* hold three different values, the last of them the mailbox's counter
C25_Witness ==
  \E s \in Sessions : \E t \in Sessions \ {s} :
    /\ session[s].getModseqCalls = 2 /\ session[t].getModseqCalls = 1
    /\ Len(session[s].bulkWrite) = 2 /\ Len(session[t].bulkWrite) = 1
    /\ session[s].bulkWrite[1].modseq < session[t].bulkWrite[1].modseq
    /\ session[t].bulkWrite[1].modseq < session[s].bulkWrite[2].modseq
    /\ session[s].bulkWrite[2].modseq = modifyIndex
    /\ modifyIndex = InitModifyIndex + 3

\* C26: if getModseq finds no mailbox (it was deleted while the command
\* ran), onStore fails the command: it stages no write with an undefined
\* modseq, emits no response that carries one, and an invocation that got no
\* modseq does not complete with success.
C26_NoMailboxFailsCommand ==
  \A s \in Sessions :
    /\ \A w \in Staged(s) : w.modseq # Null
    /\ \A i \in DOMAIN session[s].responses :
         session[s].responses[i].modseq # Null
    /\ Completed(s) =>
         \A i \in DOMAIN session[s].entries : session[s].entries[i].modseq # Null

\* C27: a `remove` that takes \Deleted off a message sets undeleted to true;
\* in a mailbox whose special-use is Trash or Junk it does not restore the
\* searchable marker, in a mailbox with any other special-use or none it
\* makes searchable present.
C27_RemoveDeletedRestoresUnlessTrashOrJunk ==
  [][\A s \in Sessions : \A w \in Submitted(s) :
       (/\ w.applied
        /\ session[s].update.action = "remove"
        /\ includes(session[s].update.value, "\\Deleted")
        /\ includes(messages[w.uid].flags, "\\Deleted")) =>
         /\ messages'[w.uid].undeleted
         /\ IF specialUse \in {"\\Trash", "\\Junk"}
              THEN messages'[w.uid].searchable = messages[w.uid].searchable
              ELSE messages'[w.uid].searchable]_vars

\* the responses an invocation has written to the socket
Responses(s) == SeqToSet(session[s].responses)

EndedAfterLoopError(s) == session[s].pc = "done" /\ session[s].err # ""

\* C29: when the message stream or a batch write in the loop has raised an
\* error, the command ends only with the cursor closed, with every write
\* that was staged and not yet flushed submitted to the store, and with the
\* staged change entries delivered to the notifier; and whenever a command
\* that opened a cursor has ended, the cursor is closed.
C29_ErrorReportedAfterCleanup ==
  \A s \in Sessions :
    /\ (session[s].pc = "done" /\ session[s].cursor # "none")
         => session[s].cursor = "closed"
    /\ EndedAfterLoopError(s) =>
         /\ \/ StagedUids(s) \subseteq WrittenUids(s)
            \/ session[s].thrownAt = "bulkWrite"
         /\ SeqToSet(session[s].entries) \subseteq journal

\* a step in which session s records a failure of the store
RecordsFailure(s) ==
  \/ session'[s].err # session[s].err
  \/ session'[s].thrownAt # session[s].thrownAt

\* C30: a command in which the cursor or a batch write failed ends with a
\* failure, never with success, and what was written before the failure
\* stays: the step that records the failure changes no message, no step
\* lowers a message's modseq, and once the command has ended every message it
\* wrote holds the modseq written or a later command's higher one.
C30_FailureReportedNothingRolledBack ==
  /\ [](\A s \in Sessions :
          (session[s].pc = "done"
             /\ (session[s].err # "" \/ session[s].thrownAt # ""))
            => /\ session[s].result.kind = "StorageError"
               /\ \A w \in session[s].written :
                    w.applied => messages[w.uid].modseq >= w.modseq)
  /\ [][/\ \A uid \in DOMAIN messages :
             messages'[uid].modseq >= messages[uid].modseq
        /\ \A s \in Sessions : RecordsFailure(s) => messages' = messages]_vars

\* a command flushed a full batch, then the store failed, and the command
\* ended with a failure while the messages of the batch keep the keyword
C30_Witness ==
  \E s \in Sessions :
    /\ session[s].pc = "done"
    /\ session[s].err # ""
    /\ session[s].result.kind = "StorageError"
    /\ Cardinality(MutatedUids(s)) = MAX_BULK_WRITE_SIZE
    /\ \A uid \in MutatedUids(s) : includes(messages[uid].flags, "Kw")


\* C31: when a command has ended, for every write of it that the store
\* applied the notifier holds a change entry with the message's uid and the
\* write's modseq.
C31_AppliedWriteIsNotified ==
  \A s \in Sessions :
    session[s].pc = "done" =>
      \A w \in session[s].written :
        w.applied =>
          \E e \in journal : e.uid = w.uid /\ e.modseq = w.modseq


\* C32: a change entry is handed to the notifier only when the store has
\* taken its write: in the step that delivers an entry, the invocation's
\* log of writes the store has evaluated holds the write of that uid and
\* modseq.
C32_EntryDeliveredOnlyAfterItsWrite ==
  [][\A e \in journal' \ journal :
       \E s \in Sessions :
         \E w \in session[s].written :
           w.uid = e.uid /\ w.modseq = e.modseq]_vars


\* C33: the change entry staged for a message carries unseen = TRUE exactly
\* when the message's new flags hold no \Seen (compared ignoring case).
C33_EntryUnseenIsPostChangeState ==
  [][\A s \in Sessions :
       Len(session'[s].entries) > Len(session[s].entries) =>
         session'[s].entries[Len(session'[s].entries)].unseen
           = ("\\seen" \notin FlagSet(session[s].message.flags))]_vars


\* C34: the responses of an invocation are in strictly ascending uid order,
\* none of them is for a message whose modseq was newer than the supplied
\* unchangedSince, and the conflicted uids are in no result before the
\* invocation has ended.
C34_ResponsesAscendingWithoutConflicted ==
  \A s \in Sessions :
    /\ \A i, j \in DOMAIN session[s].responses :
         i < j => session[s].responses[i].id < session[s].responses[j].id
    /\ \A r \in Responses(s) : r.id \notin Conflicted(s)
    /\ session[s].pc # "done" => session[s].result.modified = <<>>


\* the step in which session s stages the write and the entry of a message
Stages(s) == Len(session'[s].entries) > Len(session[s].entries)

\* C35: the step that stages a message's write adds a response for that
\* message unless the update is silent and the session has not enabled
\* CONDSTORE; the response carries the uid exactly when the command is a UID
\* command and the modseq exactly when the session has enabled CONDSTORE; no
\* other step of the invocation adds a response.
C35_ResponseUnlessSilentWithoutCondstore ==
  [][\A s \in Sessions :
       LET before == session[s].responses
           after == session'[s].responses
           quiet == session[s].update.silent
                      /\ ~selected[s].condstoreEnabled
       IN IF Stages(s)
            THEN IF quiet THEN after = before
                 ELSE /\ Len(after) = Len(before) + 1
                      /\ after[Len(after)].id = session[s].message.uid
                      /\ after[Len(after)].uid = session[s].update.isUid
                      /\ after[Len(after)].withModseq
                           = selected[s].condstoreEnabled
            ELSE after = before \/ after = <<>>]_vars

\* a silent UID command of a session without CONDSTORE has staged a write
\* and written no response
C35_Witness ==
  \E t \in Sessions :
    /\ ~selected[t].condstoreEnabled
    /\ session[t].update.silent
    /\ session[t].update.isUid
    /\ session[t].bulkWrite # <<>>
    /\ session[t].responses = <<>>


\* the writes of session s's invocation that the store was given for uid
WritesOf(s, uid) == {w \in session[s].written : w.uid = uid}

\* C36: the staged writes of an invocation never number more than
\* MAX_BULK_WRITE_SIZE; when they reach that number the batch is submitted
\* before another message is fetched; after the loop a batch is submitted
\* only if writes are staged; and when the invocation has ended with
\* success, every message it staged a write for was submitted to the store
\* exactly once.
C36_BatchOfAtMost150 ==
  \A s \in Sessions :
    /\ Len(session[s].bulkWrite) <= MAX_BULK_WRITE_SIZE
    /\ Len(session[s].bulkWrite) = MAX_BULK_WRITE_SIZE
         => session[s].pc = "bulk"
    /\ session[s].pc = "bulk"
         => Len(session[s].bulkWrite) = MAX_BULK_WRITE_SIZE
    /\ session[s].pc = "flush" => session[s].bulkWrite # <<>>
    /\ (session[s].pc = "done" /\ session[s].result.kind = "ok")
         => \A r \in Responses(s) : Cardinality(WritesOf(s, r.id)) = 1

\* an invocation ended with success after a full batch submitted in the
\* loop and a batch of one write submitted after it
C36_Witness ==
  \E s \in Sessions :
    /\ session[s].pc = "done"
    /\ session[s].result.kind = "ok"
    /\ Len(session[s].responses) = MAX_BULK_WRITE_SIZE + 1
    /\ Cardinality(session[s].written) = MAX_BULK_WRITE_SIZE + 1
    /\ Len(session[s].bulkWrite) = 1


\* C37: no two entries of the mailbox's flag vocabulary are equal ignoring
\* case; a step that changes the vocabulary belongs to an `add` or `set`
\* and appends only flags that neither the system flags nor the vocabulary
\* held, compared ignoring case.
C37_VocabularyHasNoCaseDuplicates ==
  /\ [](\A i, j \in DOMAIN mailboxFlags :
          i # j => getFlag(mailboxFlags[i]) # getFlag(mailboxFlags[j]))
  /\ [][mailboxFlags' # mailboxFlags =>
          /\ \E s \in Sessions :
               /\ session[s].pc = "finish"
               /\ session[s].update.action # "remove"
          /\ \A i \in DOMAIN mailboxFlags' :
               i > Len(mailboxFlags) =>
                 getFlag(mailboxFlags'[i])
                   \notin FlagSet(systemFlags \o mailboxFlags)]_vars


\* session s's invocation has passed the session check and found the
\* mailbox: it has opened the cursor
InFlight(s) == session[s].pc \notin {"idle", "done"}

\* C38: the server's shutdown and the closing of a socket change nothing of
\* an invocation in flight; whether or not they have happened, the
\* invocation's next step can be taken, and an invocation that opened its
\* cursor ends with success, having fetched every message of its selection
\* and submitted every staged write.
C38_ShutdownDoesNotStopInvocation ==
  /\ [][(closeTimeout' # closeTimeout \/ socketOpen' # socketOpen)
          => session' = session]_vars
  /\ [](\A s \in Sessions :
          /\ InFlight(s) => ENABLED onStoreStep(s)
          /\ (session[s].pc = "done" /\ session[s].cursor # "none") =>
               /\ session[s].result.kind = "ok"
               /\ \A uid \in DOMAIN messages :
                    Targeted(s, uid) => \E r \in Records(s) : r.uid = uid
               /\ StagedUids(s) \subseteq WrittenUids(s))

\* the server began to shut down and the socket closed while an invocation
\* was in flight; the invocation has fetched its messages, written to the
\* store and is about to end
C38_Witness ==
  \E s \in Sessions :
    /\ closeTimeout
    /\ ~socketOpen[s]
    /\ session[s].pc = "finish"
    /\ session[s].command = "STORE"
    /\ MutatedUids(s) # {}
    /\ Len(session[s].streamed) > 1


\* C39: an invocation in flight has not called its callback, an invocation
\* that has ended has called it once, whatever its result, and every
\* invocation in flight ends.
C39_CallbackExactlyOnce ==
  /\ [](\A s \in Sessions :
          /\ InFlight(s) => session[s].callbacks = 0
          /\ (session[s].pc = "done" /\ session[s].command = "STORE")
               => /\ session[s].callbacks = 1
                  /\ session[s].result.kind # "none")
  /\ \A s \in Sessions : InFlight(s) ~> (session[s].pc = "done")

\* an invocation ended with the error of its cursor after its cleanup, and
\* the other session's invocation was refused by the session check; each
\* called its callback once
C39_Witness ==
  \E s \in Sessions : \E t \in Sessions \ {s} :
    /\ Ended(s, "STORE", "StorageError")
    /\ session[s].thrownAt = "err"
    /\ session[s].callbacks = 1
    /\ Ended(t, "STORE", "ServerShutdownError")
    /\ session[t].callbacks = 1


Max(a, b) == IF a >= b THEN a ELSE b

\* the outcome of the request's last attempt
LastOutcome == request.log[Len(request.log)]

====
